---------------------------- MODULE Spec2Model ----------------------------
(***************************************************************************)
(* ico-mcp: the import scripts (setup-db, setup-db-fast,                   *)
(* setup-db-streaming), the SQLite store they write (ico_registrations,    *)
(* data_versions), a reader of the active version, and the lock file of    *)
(* cron-update.                                                            *)
(*                                                                         *)
(* Spec     : import runs, one after the other, against one database file, *)
(*            with a concurrent reader connection.                         *)
(* SpecCron : updateData invocations of cron-update racing on the lock     *)
(*            file.                                                        *)
(***************************************************************************)
EXTENDS Integers, Sequences, FiniteSets, TLC

(***************************************************************************)
(* Bounds of the exploration.                                              *)
(***************************************************************************)
MaxRuns == 2

(***************************************************************************)
(* Program constants.  BATCH_SIZE is 1000 in the scripts; the model uses   *)
(* 2 so that a three line file is "more than one batch".                   *)
(***************************************************************************)
BATCH_SIZE == 2

(***************************************************************************)
(* Source files.  A file is its sequence of lines; line 1 is the header.   *)
(* A data line is given by the two fields the import looks at.             *)
(***************************************************************************)
HeaderLine == [kind |-> "header", Registration_number |-> "", Organisation_name |-> ""]

Row(k, n) == [kind |-> "data", Registration_number |-> k, Organisation_name |-> n]

FileA == <<HeaderLine, Row("Z1", "acme"), Row("Z2", "nhs")>>

FileB == <<HeaderLine, Row("Z1", "acme ltd"), Row("", "ghost"), Row("Z3", "bolt")>>

SourceFiles == {FileA, FileB}

\* a file in which the key Z1 occurs in two accepted rows, with different
\* names, the second one in a later batch
FileDup == <<HeaderLine, Row("Z1", "acme"), Row("Z2", "nhs"), Row("Z1", "acme ltd")>>

EdgeFiles == {FileDup}

\* register-of-data-controllers.csv does not exist
NoFile == <<>>

\* crypto sha256 digest, idealised as collision free: equal digests iff
\* equal content
Sha256(content) == content

\* fs.statSync(CSV_FILE_PATH).size
StatSize(content) == Len(content)

Scripts == {"setup-db", "setup-db-fast", "setup-db-streaming"}

VARIABLES
    \* the database file, as committed (what other connections read)
    ico_registrations, data_versions, sqlite_sequence,
    \* the importing connection: its view of the tables, whether it has an
    \* open transaction, and the statements queued on it, in call order
    txnRegs, txnVers, txnSeq, dbTxnOpen, dbQueue,
    txnUpserts,         \* row upserts the open transaction holds uncommitted
    clock,              \* wall clock, for download_date
    \* the import process
    script, pc, csv, fileSha256, recordCount, skippedRecords, batchCount,
    i, records, exitCode, fault,
    \* setup-db-streaming: processStream
    readPos, pendingLines, processing, transactionActive, isFirstLine,
    immediates, closePc, promise, finalized,
    \* bookkeeping of the runs (not program state)
    runs, startRegs, startVers, recVers, prev,
    \* a reader connection
    seen,
    \* cron-update
    lockFile,           \* data/update.lock: whether it exists, its mtime and the pid in it
    now,                \* Date.now(), in hours
    cpc,                \* where each cron-update process is in updateData
    starts,             \* cron-update processes started so far
    checked,            \* what checkLockFile of each process found (not program state)
    \* the text of a register file and what importing it yields
    trial,
    \* a line handed to parseCSVLine and the fields it returns
    parsed,
    \* a store of registrations, a search on it and what the search returned
    search,
    \* the stdio MCP server: its input so far, its handlers and its output
    mcp,
    \* the HTTP bridge: its settings, the requests it has read and its output
    bridge

storeVars == <<ico_registrations, data_versions, sqlite_sequence, txnRegs, txnVers, txnSeq, dbTxnOpen, dbQueue,
               txnUpserts>>

runVars == <<script, pc, csv, fileSha256, recordCount, skippedRecords, batchCount, i, records, exitCode, fault>>

streamVars == <<readPos, pendingLines, processing, transactionActive, isFirstLine, immediates, closePc, promise, finalized>>

histVars == <<runs, startRegs, startVers, recVers, prev>>

cronVars == <<lockFile, now, cpc, starts, checked>>

importVars == <<storeVars, clock, runVars, streamVars, histVars, seen>>

serverVars == <<parsed, search, mcp, bridge>>

vars == <<importVars, cronVars, trial, serverVars>>

Min(a, b) == IF a <= b THEN a ELSE b

(***************************************************************************)
(* The store: SQLite statements on the importing connection.               *)
(***************************************************************************)

\* INSERT OR REPLACE INTO ico_registrations: registration_number is the
\* primary key
Upsert(table, reg) ==
    {r \in table : r.registration_number # reg.registration_number} \cup {reg}

\* the row stmt.run / insertRegistration binds for an accepted line
Registration(line) ==
    [registration_number |-> line.Registration_number,
     organisation_name |-> line.Organisation_name]

\* a check of the required fields that lets every data line through
AcceptAny(line) ==
    line.kind = "data"

\* the required-field check of the three scripts
Accepted(line) ==
    /\ line.kind = "data"
    /\ line.Registration_number # ""
    /\ line.Organisation_name # ""

\* an UPDATE that archives nothing
ArchiveNone(versions) ==
    versions

\* UPDATE data_versions SET status = 'archived'
ArchiveAll(versions) ==
    {[v EXCEPT !.status = "archived"] : v \in versions}

\* the row of VALUES (?, ?, ?, ?, ?, 'active') with the id SQLite assigns
NewVersion(id, ver) ==
    [id |-> id, download_date |-> ver.download_date, file_sha256 |-> ver.file_sha256,
     file_size |-> ver.file_size, record_count |-> ver.record_count, status |-> "active"]

\* INSERT OR REPLACE INTO data_versions: a row with the same file_sha256 is
\* deleted before the new row is inserted
InsertOrReplaceVersion(versions, v) ==
    {w \in versions : w.file_sha256 # v.file_sha256} \cup {v}

ActiveRows(versions) == {v \in versions : v.status = "active"}

Hashes(versions) == {v.file_sha256 : v \in versions}

\* SELECT COUNT(*) as count FROM ico_registrations
getRecordCount(registrations) ==
    Cardinality(registrations)

\* SELECT * FROM data_versions WHERE status = 'active'
\*   ORDER BY download_date DESC LIMIT 1
getCurrentDataVersion(versions) ==
    IF ActiveRows(versions) = {} THEN {}
    ELSE {CHOOSE v \in ActiveRows(versions) :
            \A w \in ActiveRows(versions) : w.download_date <= v.download_date}

\* SELECT * FROM data_versions ORDER BY download_date DESC: the orders in
\* which SQLite may return the rows (rows of equal download_date in any
\* order)
getAllDataVersions(versions) ==
    {rows \in [1 .. Cardinality(versions) -> versions] :
        /\ \A m, n \in DOMAIN rows : m < n => rows[m] # rows[n]
        /\ \A m, n \in DOMAIN rows : m < n => rows[m].download_date >= rows[n].download_date}

NoReg == [registration_number |-> "", organisation_name |-> ""]

NoVer == [download_date |-> 0, file_sha256 |-> NoFile, file_size |-> 0, record_count |-> 0]

\* a statement handed to the connection; tag names the callback that
\* continues when it has run, caller the processBatch call it belongs to
Stmt(kind, tag, caller) == [kind |-> kind, tag |-> tag, caller |-> caller, reg |-> NoReg, ver |-> NoVer]

UpsertStmt(reg) == [Stmt("UPSERT", "none", "none") EXCEPT !.reg = reg]

VersionStmt(kind, ver) == [Stmt(kind, "version", "none") EXCEPT !.ver = ver]

DB == [regs |-> ico_registrations, vers |-> data_versions, seq |-> sqlite_sequence,
       tregs |-> txnRegs, tvers |-> txnVers, tseq |-> txnSeq, open |-> dbTxnOpen,
       upserts |-> txnUpserts]

\* outside a transaction every statement commits on its own
Autocommit(d) ==
    IF d.open THEN d ELSE [d EXCEPT !.regs = d.tregs, !.vers = d.tvers, !.seq = d.tseq]

\* end of the connection (close or process exit): an open transaction is
\* rolled back
Disconnect(d) ==
    [d EXCEPT !.open = FALSE, !.tregs = d.regs, !.tvers = d.vers, !.tseq = d.seq, !.upserts = 0]

\* one statement run by SQLite; busy says that SQLite reports an error for a
\* BEGIN or COMMIT it could otherwise run (SQLITE_BUSY, I/O error)
ExecStmt(d, s, busy) ==
    CASE s.kind = "BEGIN" ->
            IF d.open \/ busy THEN [db |-> d, ok |-> FALSE]
            ELSE [db |-> [d EXCEPT !.open = TRUE], ok |-> TRUE]
      [] s.kind = "COMMIT" ->
            IF ~d.open \/ busy THEN [db |-> d, ok |-> FALSE]
            ELSE [db |-> Autocommit([d EXCEPT !.open = FALSE, !.upserts = 0]), ok |-> TRUE]
      [] s.kind = "ROLLBACK" ->
            IF ~d.open THEN [db |-> d, ok |-> FALSE]
            ELSE [db |-> Disconnect(d), ok |-> TRUE]
      [] s.kind = "UPSERT" ->
            [db |-> Autocommit([d EXCEPT !.tregs = Upsert(d.tregs, s.reg),
                                         !.upserts = IF d.open THEN d.upserts + 1 ELSE 0]), ok |-> TRUE]
      [] s.kind = "DELETE" ->
            [db |-> Autocommit([d EXCEPT !.tregs = {}]), ok |-> TRUE]
      [] s.kind = "ARCHIVE" ->
            [db |-> Autocommit([d EXCEPT !.tvers = ArchiveAll(d.tvers)]), ok |-> TRUE]
      [] s.kind = "INSERT_VERSION" ->
            IF s.ver.file_sha256 \in Hashes(d.tvers) THEN [db |-> d, ok |-> FALSE]
            ELSE [db |-> Autocommit([d EXCEPT !.tvers = d.tvers \cup {NewVersion(d.tseq + 1, s.ver)},
                                              !.tseq = d.tseq + 1]), ok |-> TRUE]
      [] s.kind = "REPLACE_VERSION" ->
            [db |-> Autocommit([d EXCEPT !.tvers = InsertOrReplaceVersion(d.tvers, NewVersion(d.tseq + 1, s.ver)),
                                         !.tseq = d.tseq + 1]), ok |-> TRUE]
      [] s.kind = "CLOSE" ->
            [db |-> Disconnect(d), ok |-> TRUE]

SetDB(d) ==
    /\ ico_registrations' = d.regs
    /\ data_versions' = d.vers
    /\ sqlite_sequence' = d.seq
    /\ txnRegs' = d.tregs
    /\ txnVers' = d.tvers
    /\ txnSeq' = d.tseq
    /\ dbTxnOpen' = d.open
    /\ txnUpserts' = d.upserts

(***************************************************************************)
(* Initial state: the tables exist and are empty, no import is running.    *)
(***************************************************************************)
\* prev: script, file and resulting row count of the run before the current
\* one, if that run ended with exit code 0 and met no injected failure
NoPrev == [script |-> "none", csv |-> NoFile, regCount |-> 0]

NoRead == [active |-> 0, current |-> 0, recording |-> FALSE]

InitStore ==
    /\ ico_registrations = {}
    /\ data_versions = {}
    /\ sqlite_sequence = 0
    /\ txnRegs = {}
    /\ txnVers = {}
    /\ txnSeq = 0
    /\ dbTxnOpen = FALSE
    /\ dbQueue = <<>>
    /\ txnUpserts = 0
    /\ clock = 1

InitRun ==
    /\ script = "none"
    /\ pc = "idle"
    /\ csv = NoFile
    /\ fileSha256 = NoFile
    /\ recordCount = 0
    /\ skippedRecords = 0
    /\ batchCount = 0
    /\ i = 0
    /\ records = <<>>
    /\ exitCode = -1
    /\ fault = "none"

InitStream ==
    /\ readPos = 1
    /\ pendingLines = <<>>
    /\ processing = FALSE
    /\ transactionActive = FALSE
    /\ isFirstLine = TRUE
    /\ immediates = 0
    /\ closePc = "open"
    /\ promise = "pending"
    /\ finalized = FALSE

InitHist ==
    /\ runs = 0
    /\ startRegs = {}
    /\ startVers = {}
    /\ recVers = {}
    /\ prev = NoPrev

InitImport == InitStore /\ InitRun /\ InitStream /\ InitHist /\ seen = NoRead

(***************************************************************************)
(* Start and end of an import run.                                         *)
(***************************************************************************)
FirstPc(s) ==
    CASE s = "setup-db" -> "db_exists"
      [] s = "setup-db-fast" -> "fast_exists"
      [] s = "setup-db-streaming" -> "str_exists"

\* npm run setup-db | setup-db-fast | setup-db-streaming, with the csv file
\* the environment provides (or none)
StartRun(s, f) ==
    /\ pc \in {"idle", "exited"}
    /\ runs < MaxRuns
    /\ runs' = runs + 1
    /\ prev' = IF pc = "exited" /\ exitCode = 0 /\ fault = "none"
               THEN [script |-> script, csv |-> csv, regCount |-> Cardinality(ico_registrations)]
               ELSE NoPrev
    /\ startRegs' = ico_registrations
    /\ startVers' = data_versions
    /\ recVers' = {}
    /\ script' = s
    /\ csv' = f
    /\ pc' = FirstPc(s)
    /\ fileSha256' = NoFile
    /\ recordCount' = 0
    /\ skippedRecords' = 0
    /\ batchCount' = 0
    /\ i' = 0
    /\ records' = <<>>
    /\ exitCode' = -1
    /\ fault' = "none"
    /\ readPos' = 1
    /\ pendingLines' = <<>>
    /\ processing' = FALSE
    /\ transactionActive' = FALSE
    /\ isFirstLine' = TRUE
    /\ immediates' = 0
    /\ closePc' = "open"
    /\ promise' = "pending"
    /\ finalized' = FALSE
    /\ clock' = clock + 1
    /\ seen' = NoRead
    /\ UNCHANGED <<storeVars, cronVars, trial, serverVars>>

\* the next statement of the script
Goto(label) ==
    /\ pc' = label
    /\ UNCHANGED <<exitCode, fault>>

\* process.exit(code): the connection goes away with whatever is queued on
\* it, SQLite rolls an open transaction back
ProcessExit(code, d) ==
    /\ pc' = "exited"
    /\ exitCode' = code
    /\ SetDB(Disconnect(d))
    /\ dbQueue' = <<>>

\* an error thrown out of the script: main() logs it and exits with 1
FailRun(kind) ==
    /\ fault' = kind
    /\ ProcessExit(1, DB)

\* if (!fs.existsSync(CSV_FILE_PATH)) throw new Error('CSV file not found')
ExistsStep(label, next) ==
    /\ pc = label
    /\ IF csv = NoFile THEN FailRun("missing")
       ELSE Goto(next) /\ UNCHANGED storeVars
    /\ UNCHANGED <<clock, script, csv, fileSha256, recordCount, skippedRecords, batchCount, i, records>>
    /\ UNCHANGED <<streamVars, histVars, seen, cronVars, trial, serverVars>>

\* fs.statSync and the read of the whole file that feeds sha256; the read
\* can fail
HashStep(label, next) ==
    /\ pc = label
    /\ \/ /\ fileSha256' = Sha256(csv)
          /\ Goto(next)
          /\ UNCHANGED storeVars
       \/ /\ FailRun("read_hash")
          /\ UNCHANGED fileSha256
    /\ UNCHANGED <<clock, script, csv, recordCount, skippedRecords, batchCount, i, records>>
    /\ UNCHANGED <<streamVars, histVars, seen, cronVars, trial, serverVars>>

\* DELETE FROM ico_registrations, awaited
ClearStep(label, next) ==
    /\ pc = label
    /\ SetDB(ExecStmt(DB, Stmt("DELETE", "none", "none"), FALSE).db)
    /\ Goto(next)
    /\ UNCHANGED <<dbQueue, clock, script, csv, fileSha256, recordCount, skippedRecords, batchCount, i, records>>
    /\ UNCHANGED <<streamVars, histVars, seen, cronVars, trial, serverVars>>

(***************************************************************************)
(* setup-db.ts: setupDatabase.  Every statement is awaited, so each step   *)
(* below is a statement that has run.                                      *)
(***************************************************************************)
SetupDbExists == ExistsStep("db_exists", "db_hash")

SetupDbHash == HashStep("db_hash", "db_clear")

\* await db.clearRegistrations()
SetupDbClear == ClearStep("db_clear", "db_parse")

\* fs.createReadStream(CSV_FILE_PATH).pipe(csv()): the rows with both
\* required fields are pushed to records; a stream error rejects
SetupDbParse ==
    /\ pc = "db_parse"
    /\ \/ /\ records' = SelectSeq(SubSeq(csv, 2, Len(csv)), Accepted)
          /\ recordCount' = Len(SelectSeq(SubSeq(csv, 2, Len(csv)), Accepted))
          /\ Goto("db_insert")
          /\ UNCHANGED storeVars
       \/ /\ FailRun("read_parse")
          /\ UNCHANGED <<records, recordCount>>
    /\ UNCHANGED <<clock, script, csv, fileSha256, skippedRecords, batchCount, i>>
    /\ UNCHANGED <<streamVars, histVars, seen, cronVars, trial, serverVars>>

\* for (let i = 0; i < records.length; i++) await db.insertRegistration(records[i])
SetupDbInsert ==
    /\ pc = "db_insert"
    /\ IF i < Len(records)
       THEN /\ SetDB(ExecStmt(DB, UpsertStmt(Registration(records[i + 1])), FALSE).db)
            /\ i' = i + 1
            /\ UNCHANGED <<pc, exitCode, fault>>
       ELSE /\ Goto("db_archive")
            /\ UNCHANGED <<ico_registrations, data_versions, sqlite_sequence, txnRegs, txnVers, txnSeq, dbTxnOpen,
                         txnUpserts, i>>
    /\ UNCHANGED <<dbQueue, clock, script, csv, fileSha256, recordCount, skippedRecords, batchCount, records>>
    /\ UNCHANGED <<streamVars, histVars, seen, cronVars, trial, serverVars>>

\* DatabaseService.insertDataVersion, first statement
SetupDbArchive ==
    /\ pc = "db_archive"
    /\ recVers' = data_versions
    /\ SetDB(ExecStmt(DB, Stmt("ARCHIVE", "none", "none"), FALSE).db)
    /\ Goto("db_version")
    /\ UNCHANGED <<dbQueue, clock, script, csv, fileSha256, recordCount, skippedRecords, batchCount, i, records>>
    /\ UNCHANGED <<streamVars, runs, startRegs, startVers, prev, seen, cronVars, trial, serverVars>>

\* DatabaseService.insertDataVersion, second statement: a plain INSERT, which
\* file_sha256 TEXT NOT NULL UNIQUE rejects for a recorded hash; the error
\* leaves setupDatabase through catch/throw and main exits with 1
SetupDbInsertVersion ==
    /\ pc = "db_version"
    /\ LET r == ExecStmt(DB, VersionStmt("INSERT_VERSION",
                    [download_date |-> clock, file_sha256 |-> fileSha256,
                     file_size |-> StatSize(csv), record_count |-> recordCount]), FALSE)
       IN ProcessExit(IF r.ok THEN 0 ELSE 1, r.db)
    /\ UNCHANGED <<clock, script, csv, fileSha256, recordCount, skippedRecords, batchCount, i, records, fault>>
    /\ UNCHANGED <<streamVars, histVars, seen, cronVars, trial, serverVars>>

SetupDb ==
    \/ SetupDbExists
    \/ SetupDbHash
    \/ SetupDbClear
    \/ SetupDbParse
    \/ SetupDbInsert
    \/ SetupDbArchive
    \/ SetupDbInsertVersion

(***************************************************************************)
(* The script side of setup-db-fast and setup-db-streaming.  A handler     *)
(* (event callback, statement callback, code after an await) runs to its   *)
(* next await without interruption; it maps the script's variables JS to   *)
(* their new values.  exit is the exit code when it ended the process, else -1.        *)
(***************************************************************************)
JS == [pc |-> pc, recordCount |-> recordCount, skippedRecords |-> skippedRecords,
       batchCount |-> batchCount, pendingLines |-> pendingLines,
       processing |-> processing, transactionActive |-> transactionActive,
       isFirstLine |-> isFirstLine, immediates |-> immediates, closePc |-> closePc,
       promise |-> promise, finalized |-> finalized, dbQueue |-> dbQueue,
       exit |-> -1]

\* the variables after a handler, the store being d
Apply(js, d) ==
    /\ recordCount' = js.recordCount
    /\ skippedRecords' = js.skippedRecords
    /\ batchCount' = js.batchCount
    /\ pendingLines' = js.pendingLines
    /\ processing' = js.processing
    /\ transactionActive' = js.transactionActive
    /\ isFirstLine' = js.isFirstLine
    /\ immediates' = js.immediates
    /\ closePc' = js.closePc
    /\ promise' = js.promise
    /\ finalized' = js.finalized
    /\ IF js.exit = -1
       THEN /\ pc' = js.pc
            /\ dbQueue' = js.dbQueue
            /\ SetDB(d)
            /\ UNCHANGED exitCode
       ELSE ProcessExit(js.exit, d)

\* db.run(sql, callback) / stmt.run(values)
Enqueue(js, s) == [js EXCEPT !.dbQueue = Append(@, s)]

\* an exception nobody catches, an 'error' event nobody listens to
Crash(js) == [js EXCEPT !.exit = 1]

\* reject(error) of processStream / processRecords: the first settlement
\* wins; the rejection leaves setupDatabase* and main exits with 1
Reject(js) ==
    IF js.promise = "pending" THEN [js EXCEPT !.promise = "rejected", !.exit = 1] ELSE js

\* after await processRecords() / await processStream(): stmt.finalize(),
\* then db.run("UPDATE data_versions SET status = 'archived'", callback)
RecordVersion(js, label) ==
    Enqueue([js EXCEPT !.finalized = TRUE, !.pc = label], Stmt("ARCHIVE", "archive", "none"))

\* resolve() of processStream: the first settlement wins; closePc tells
\* whether the close handler returned with lines left in pendingLines
Resolve(js) ==
    IF js.promise = "pending"
    THEN RecordVersion([js EXCEPT !.promise = "resolved",
                                  !.closePc = IF Len(js.pendingLines) > 0 THEN "done_left" ELSE "done"],
                       "str_archive")
    ELSE js

(***************************************************************************)
(* setup-db-fast.ts: processRecords queues, inside db.serialize and in one *)
(* go, BEGIN, the upsert of every accepted line, COMMIT and BEGIN after    *)
(* each BATCH_SIZE upserts, and the final COMMIT.                          *)
(***************************************************************************)
RECURSIVE FastLines(_, _, _)
FastLines(lines, n, js) ==
    IF n > Len(lines) THEN js
    ELSE IF lines[n].kind # "data" THEN FastLines(lines, n + 1, js)
    ELSE IF ~Accepted(lines[n])
    THEN FastLines(lines, n + 1, [js EXCEPT !.skippedRecords = @ + 1])
    ELSE LET j1 == Enqueue([js EXCEPT !.recordCount = @ + 1, !.batchCount = @ + 1],
                           UpsertStmt(Registration(lines[n])))
             j2 == IF j1.batchCount >= BATCH_SIZE
                   THEN [Enqueue(Enqueue(j1, Stmt("COMMIT", "none", "none")),
                                 Stmt("BEGIN", "none", "none"))
                         EXCEPT !.batchCount = 0]
                   ELSE j1
         IN FastLines(lines, n + 1, j2)

processRecords(lines, js) ==
    Enqueue(FastLines(lines, 2, Enqueue(js, Stmt("BEGIN", "none", "none"))),
            Stmt("COMMIT", "fast_final", "none"))

FastExists == ExistsStep("fast_exists", "fast_hash")

FastHash == HashStep("fast_hash", "fast_clear")

\* new Database(DB_PATH), CREATE ... IF NOT EXISTS, DELETE FROM ico_registrations
FastClear == ClearStep("fast_clear", "fast_read")

\* fs.readFileSync(CSV_FILE_PATH, 'utf8') can throw; otherwise the lines are
\* split and processRecords queues its statements
FastProcessRecords ==
    /\ pc = "fast_read"
    /\ \/ /\ Apply(processRecords(csv, [JS EXCEPT !.pc = "fast_records"]), DB)
          /\ UNCHANGED fault
       \/ /\ FailRun("read_parse")
          /\ UNCHANGED streamVars
          /\ UNCHANGED <<recordCount, skippedRecords, batchCount>>
    /\ UNCHANGED <<clock, script, csv, fileSha256, i, records, readPos>>
    /\ UNCHANGED <<histVars, seen, cronVars, trial, serverVars>>

SetupDbFast ==
    \/ FastExists
    \/ FastHash
    \/ FastClear
    \/ FastProcessRecords

(***************************************************************************)
(* setup-db-streaming.ts: processStream.                                   *)
(***************************************************************************)

\* the for loop of processBatch over linesToProcess; stmt.run on the
\* finalized statement raises
RECURSIVE BatchLines(_, _)
BatchLines(lines, js) ==
    IF lines = <<>> THEN [js |-> js, threw |-> FALSE]
    ELSE IF Head(lines).kind = "blank" THEN BatchLines(Tail(lines), js)
    ELSE IF js.isFirstLine THEN BatchLines(Tail(lines), [js EXCEPT !.isFirstLine = FALSE])
    ELSE IF ~Accepted(Head(lines))
    THEN BatchLines(Tail(lines), [js EXCEPT !.skippedRecords = @ + 1])
    ELSE IF js.finalized THEN [js |-> js, threw |-> TRUE]
    ELSE BatchLines(Tail(lines),
            Enqueue([js EXCEPT !.recordCount = @ + 1, !.batchCount = @ + 1],
                    UpsertStmt(Registration(Head(lines)))))

\* rl.on('close'), after the wait loop and the call of processBatch: the
\* final commit if a transaction is active, then resolve()
CloseFinish(js) ==
    IF js.transactionActive
    THEN Enqueue([js EXCEPT !.closePc = "final_commit"], Stmt("COMMIT", "close_commit", "none"))
    ELSE Resolve([js EXCEPT !.closePc = "done"])

\* the promise of a processBatch call settles: the close handler that
\* awaited it goes on, a setImmediate callback has nothing more to do
ReturnTo(js, caller) ==
    IF caller = "close" /\ js.exit = -1 THEN CloseFinish(js) ELSE js

\* catch (error) of processBatch
Catch(js, caller) ==
    LET j1 == [js EXCEPT !.processing = FALSE]
    IN IF j1.transactionActive
       THEN Enqueue(j1, Stmt("ROLLBACK", "pb_rollback", caller))
       ELSE ReturnTo(Reject(j1), caller)

\* processBatch after await commitTransaction()
AfterCommit(js, caller) ==
    LET j1 == [js EXCEPT !.processing = FALSE,
                         !.immediates = IF Len(js.pendingLines) > 0 THEN @ + 1 ELSE @]
    IN ReturnTo(j1, caller)

\* processBatch from pendingLines.splice(0, BATCH_SIZE) to the commit;
\* uncaught chooses how the error of stmt.run on a finalized statement
\* surfaces: thrown into the catch block, or as unhandled 'error' event
SyncSection(js, caller, uncaught) ==
    LET n == Min(BATCH_SIZE, Len(js.pendingLines))
        linesToProcess == SubSeq(js.pendingLines, 1, n)
        r == BatchLines(linesToProcess,
                [js EXCEPT !.pendingLines = SubSeq(js.pendingLines, n + 1, Len(js.pendingLines))])
    IN IF r.threw THEN (IF uncaught THEN Crash(r.js) ELSE Catch(r.js, caller))
       ELSE IF n > 0 /\ r.js.transactionActive
       THEN Enqueue(r.js, Stmt("COMMIT", "pb_commit", caller))
       ELSE AfterCommit(r.js, caller)

\* processBatch up to its first await
processBatch(js, caller, uncaught) ==
    IF js.processing \/ Len(js.pendingLines) = 0 THEN ReturnTo(js, caller)
    ELSE IF ~js.transactionActive
    THEN Enqueue([js EXCEPT !.processing = TRUE], Stmt("BEGIN", "pb_begin", caller))
    ELSE SyncSection([js EXCEPT !.processing = TRUE], caller, uncaught)

\* the callback of statement s, which ran with result ok
Callback(js, s, ok, uncaught, ver) ==
    CASE s.tag = "none" -> IF ok THEN js ELSE Crash(js)
      [] s.tag = "fast_final" -> IF ok THEN RecordVersion(js, "fast_archive") ELSE Reject(js)
      [] s.tag = "archive" ->
            IF ok THEN Enqueue([js EXCEPT !.pc = IF js.pc = "fast_archive" THEN "fast_version" ELSE "str_version"],
                               VersionStmt("REPLACE_VERSION", [ver EXCEPT !.record_count = js.recordCount]))
            ELSE Crash(js)
      [] s.tag = "version" ->
            IF ok THEN Enqueue([js EXCEPT !.pc = IF js.pc = "fast_version" THEN "fast_close" ELSE "str_close"],
                               Stmt("CLOSE", "closed", "none"))
            ELSE Crash(js)
      [] s.tag = "closed" -> [js EXCEPT !.exit = 0]
      [] s.tag = "pb_begin" ->
            IF ok THEN SyncSection([js EXCEPT !.transactionActive = TRUE], s.caller, uncaught)
            ELSE Catch(js, s.caller)
      [] s.tag = "pb_commit" ->
            IF ok THEN AfterCommit([js EXCEPT !.transactionActive = FALSE, !.batchCount = 0], s.caller)
            ELSE Catch(js, s.caller)
      [] s.tag = "pb_rollback" ->
            IF ok THEN ReturnTo(Reject([js EXCEPT !.transactionActive = FALSE]), s.caller)
            ELSE Crash(js)
      [] s.tag = "close_commit" ->
            IF ok THEN Resolve([js EXCEPT !.transactionActive = FALSE, !.closePc = "done"])
            ELSE Enqueue(js, Stmt("ROLLBACK", "close_rollback", "none"))
      [] s.tag = "close_rollback" ->
            IF ok THEN Reject([js EXCEPT !.transactionActive = FALSE]) ELSE Crash(js)

\* the queue without its k-th statement
RemoveAt(queue, k) ==
    SubSeq(queue, 1, k - 1) \o SubSeq(queue, k + 1, Len(queue))

\* the queued statements SQLite may run next.  setup-db awaits every
\* statement and setup-db-fast queues inside db.serialize: the head.
\* setup-db-streaming leaves the connection in parallel mode, where the
\* runs of the prepared insert statement keep their order and a db.run
\* statement may run before the stmt.run calls queued ahead of it; db.close
\* waits for every pending statement.
Runnable(queue) ==
    {k \in 1 .. Len(queue) :
        \/ k = 1
        \/ /\ script = "setup-db-streaming"
           /\ queue[k].kind \notin {"UPSERT", "CLOSE"}
           /\ \A j \in 1 .. (k - 1) : queue[j].kind = "UPSERT"}

\* SQLite runs a queued statement of the connection and the script runs the
\* statement's callback
DbStatementDone(k, busy, uncaught) ==
    /\ pc \notin {"idle", "exited"}
    /\ k \in Runnable(dbQueue)
    /\ busy => fault = "none" /\ dbQueue[k].kind \in {"BEGIN", "COMMIT"}
    /\ LET s == dbQueue[k]
           r == ExecStmt(DB, s, busy)
           ver == [download_date |-> clock, file_sha256 |-> fileSha256,
                   file_size |-> StatSize(csv), record_count |-> 0]
       IN /\ Apply(Callback([JS EXCEPT !.dbQueue = RemoveAt(dbQueue, k)], s, r.ok, uncaught, ver), r.db)
          /\ recVers' = IF s.kind = "ARCHIVE" THEN data_versions ELSE recVers
          /\ fault' = IF busy THEN (IF s.kind = "BEGIN" THEN "begin" ELSE "commit") ELSE fault
    /\ UNCHANGED <<clock, script, csv, fileSha256, i, records, readPos>>
    /\ UNCHANGED <<runs, startRegs, startVers, prev, seen, cronVars, trial, serverVars>>

StreamExists == ExistsStep("str_exists", "str_hash")

StreamHash == HashStep("str_hash", "str_clear")

\* new Database(DB_PATH), CREATE ... IF NOT EXISTS, DELETE FROM
\* ico_registrations; then db.prepare and processStream open the reader
StreamClear == ClearStep("str_clear", "str_stream")

\* rl.on('line')
LineEvent ==
    /\ pc = "str_stream"
    /\ closePc = "open"
    /\ readPos <= Len(csv)
    /\ readPos' = readPos + 1
    /\ pendingLines' = Append(pendingLines, csv[readPos])
    /\ immediates' = IF Len(pendingLines) + 1 >= BATCH_SIZE \/ ~processing
                     THEN immediates + 1 ELSE immediates
    /\ UNCHANGED <<storeVars, clock, runVars, processing, transactionActive, isFirstLine, closePc, promise, finalized>>
    /\ UNCHANGED <<histVars, seen, cronVars, trial, serverVars>>

\* the read stream fails while the file is parsed: rl.on('error') rejects
\* (rolling back first), or the stream's 'error' has no listener
StreamReadError ==
    /\ pc = "str_stream"
    /\ closePc = "open"
    /\ fault = "none"
    /\ FailRun("read_parse")
    /\ UNCHANGED <<clock, script, csv, fileSha256, recordCount, skippedRecords, batchCount, i, records>>
    /\ UNCHANGED <<streamVars, histVars, seen, cronVars, trial, serverVars>>

\* rl.on('close') after the wait loop while (processing) { sleep 10 ms }
CloseContinue(js, uncaught) ==
    IF Len(js.pendingLines) > 0
    THEN processBatch([js EXCEPT !.closePc = "in_batch"], "close", uncaught)
    ELSE CloseFinish(js)

\* rl.on('close'): the reader has delivered every line
CloseEvent ==
    /\ pc = "str_stream"
    /\ closePc = "open"
    /\ readPos > Len(csv)
    /\ IF processing
       THEN Apply([JS EXCEPT !.closePc = "waiting"], DB)
       ELSE Apply(CloseContinue(JS, FALSE), DB)
    /\ UNCHANGED <<clock, script, csv, fileSha256, i, records, fault, readPos>>
    /\ UNCHANGED <<histVars, seen, cronVars, trial, serverVars>>

\* the wait loop of rl.on('close') finds processing false
ClosePoll ==
    /\ pc = "str_stream"
    /\ closePc = "waiting"
    /\ ~processing
    /\ Apply(CloseContinue(JS, FALSE), DB)
    /\ UNCHANGED <<clock, script, csv, fileSha256, i, records, fault, readPos>>
    /\ UNCHANGED <<histVars, seen, cronVars, trial, serverVars>>

\* a callback queued by setImmediate(() => processBatch())
Immediate(uncaught) ==
    /\ pc \in {"str_stream", "str_archive", "str_version", "str_close"}
    /\ immediates > 0
    /\ Apply(processBatch([JS EXCEPT !.immediates = @ - 1], "immediate", uncaught), DB)
    /\ UNCHANGED <<clock, script, csv, fileSha256, i, records, fault, readPos>>
    /\ UNCHANGED <<histVars, seen, cronVars, trial, serverVars>>

SetupDbStreaming ==
    \/ StreamExists
    \/ StreamHash
    \/ StreamClear
    \/ LineEvent
    \/ StreamReadError
    \/ CloseEvent
    \/ ClosePoll
    \/ \E uncaught \in BOOLEAN : Immediate(uncaught)

(***************************************************************************)
(* A reader connection (REST / MCP server): getCurrentDataVersion at any   *)
(* time during an import.  It records how many rows report active, how     *)
(* many rows the query returns, and whether it read between the two        *)
(* statements of a version recording that began with an active row.        *)
(***************************************************************************)
Recording == pc \in {"db_version", "fast_version", "str_version"}

ReadCurrentVersion ==
    /\ pc \notin {"idle", "exited"}
    /\ seen' = [active |-> Cardinality(ActiveRows(data_versions)),
                current |-> Cardinality(getCurrentDataVersion(data_versions)),
                recording |-> Recording /\ ActiveRows(recVers) # {}]
    /\ seen' # seen
    /\ UNCHANGED <<storeVars, clock, runVars, streamVars, histVars, cronVars, trial, serverVars>>

(***************************************************************************)
(* scripts/cron-update.ts: every cron firing is a process of its own that  *)
(* runs updateData.  The processes share the lock file; each file system   *)
(* call is one step.  Time is counted in hours.                            *)
(***************************************************************************)
NumProcs == 2

MaxStarts == 3

MaxTime == 3

\* const MAX_LOCK_AGE = 2 * 60 * 60 * 1000
MAX_LOCK_AGE == 2

Procs == 1 .. NumProcs

InitCron ==
    /\ lockFile = [exists |-> FALSE, mtime |-> 0, pid |-> 0]
    /\ checked = [p \in Procs |-> "none"]
    /\ now = 0
    /\ cpc = [p \in Procs |-> "idle"]
    /\ starts = 0

\* between createLockFile() and removeLockFile(): the three runCommand steps
Updating(p) == cpc[p] \in {"download", "build", "import"}

\* cron starts npm run cron-update: main() calls updateData()
CronStart(p) ==
    /\ cpc[p] \in {"idle", "done"}
    /\ starts < MaxStarts
    /\ starts' = starts + 1
    /\ cpc' = [cpc EXCEPT ![p] = "exists"]
    /\ checked' = [checked EXCEPT ![p] = "none"]
    /\ UNCHANGED <<lockFile, now, importVars, trial, serverVars>>

\* checkLockFile: if (!fs.existsSync(LOCK_FILE)) return false
CheckExists(p) ==
    /\ cpc[p] = "exists"
    /\ cpc' = [cpc EXCEPT ![p] = IF lockFile.exists THEN "stat" ELSE "create"]
    /\ checked' = [checked EXCEPT ![p] = IF lockFile.exists THEN @ ELSE "missing"]
    /\ UNCHANGED <<lockFile, now, starts, importVars, trial, serverVars>>

\* the age of the lock file is never looked at
CheckStatHeld(p) ==
    /\ cpc[p] = "stat"
    /\ cpc' = [cpc EXCEPT ![p] = "remove"]
    /\ checked' = [checked EXCEPT ![p] = IF lockFile.exists THEN "held" ELSE "gone"]
    /\ UNCHANGED <<lockFile, now, starts, importVars, trial, serverVars>>

\* checkLockFile: fs.statSync(LOCK_FILE) (throws when the file is gone),
\* age = Date.now() - mtime, age > MAX_LOCK_AGE; a held lock makes
\* updateData return, through its finally block
CheckStat(p) ==
    /\ cpc[p] = "stat"
    /\ cpc' = [cpc EXCEPT ![p] =
                 IF ~lockFile.exists THEN "remove"
                 ELSE IF now - lockFile.mtime > MAX_LOCK_AGE THEN "unlink"
                 ELSE "remove"]
    /\ checked' = [checked EXCEPT ![p] =
                     IF ~lockFile.exists THEN "gone"
                     ELSE IF now - lockFile.mtime > MAX_LOCK_AGE THEN "stale"
                     ELSE "held"]
    /\ UNCHANGED <<lockFile, now, starts, importVars, trial, serverVars>>

\* checkLockFile: fs.unlinkSync(LOCK_FILE) of a stale lock (throws when the
\* file is gone), return false
CheckUnlink(p) ==
    /\ cpc[p] = "unlink"
    /\ IF lockFile.exists
       THEN /\ lockFile' = [lockFile EXCEPT !.exists = FALSE]
            /\ cpc' = [cpc EXCEPT ![p] = "create"]
       ELSE /\ cpc' = [cpc EXCEPT ![p] = "remove"]
            /\ UNCHANGED lockFile
    /\ UNCHANGED <<now, starts, checked, importVars, trial, serverVars>>

\* createLockFile: fs.writeFileSync(LOCK_FILE, pid)
createLockFile(p) ==
    /\ cpc[p] = "create"
    /\ lockFile' = [exists |-> TRUE, mtime |-> now, pid |-> p]
    /\ cpc' = [cpc EXCEPT ![p] = "download"]
    /\ UNCHANGED <<now, starts, checked, importVars, trial, serverVars>>

\* await runCommand(...): the command succeeds, or fails and updateData
\* leaves through catch and finally
runCommand(p, ok) ==
    /\ Updating(p)
    /\ cpc' = [cpc EXCEPT ![p] =
                 IF ~ok THEN "remove"
                 ELSE IF cpc[p] = "download" THEN "build"
                 ELSE IF cpc[p] = "build" THEN "import"
                 ELSE "remove"]
    /\ UNCHANGED <<lockFile, now, starts, checked, importVars, trial, serverVars>>

\* finally { removeLockFile() }: if (fs.existsSync(LOCK_FILE))
RemoveExists(p) ==
    /\ cpc[p] = "remove"
    /\ cpc' = [cpc EXCEPT ![p] = IF lockFile.exists THEN "remove_unlink" ELSE "done"]
    /\ UNCHANGED <<lockFile, now, starts, checked, importVars, trial, serverVars>>

\* the lock file is left where it is
RemoveNothing(p) ==
    /\ cpc[p] = "remove_unlink"
    /\ cpc' = [cpc EXCEPT ![p] = "done"]
    /\ UNCHANGED <<lockFile, now, starts, checked, importVars, trial, serverVars>>

\* removeLockFile: fs.unlinkSync(LOCK_FILE)
RemoveUnlink(p) ==
    /\ cpc[p] = "remove_unlink"
    /\ lockFile' = [lockFile EXCEPT !.exists = FALSE]
    /\ cpc' = [cpc EXCEPT ![p] = "done"]
    /\ UNCHANGED <<now, starts, checked, importVars, trial, serverVars>>

\* process.on('SIGINT' | 'SIGTERM'): removeLockFile(), process.exit(0)
Signal(p) ==
    /\ cpc[p] \notin {"idle", "done"}
    /\ lockFile' = [lockFile EXCEPT !.exists = FALSE]
    /\ cpc' = [cpc EXCEPT ![p] = "done"]
    /\ UNCHANGED <<now, starts, checked, importVars, trial, serverVars>>

\* an hour passes
Tick ==
    /\ now < MaxTime
    /\ now' = now + 1
    /\ UNCHANGED <<lockFile, cpc, starts, checked, importVars, trial, serverVars>>

NextCron ==
    \/ \E p \in Procs : CronStart(p)
    \/ \E p \in Procs : CheckExists(p)
    \/ \E p \in Procs : CheckStat(p)
    \/ \E p \in Procs : CheckUnlink(p)
    \/ \E p \in Procs : createLockFile(p)
    \/ \E p \in Procs, ok \in BOOLEAN : runCommand(p, ok)
    \/ \E p \in Procs : RemoveExists(p)
    \/ \E p \in Procs : RemoveUnlink(p)
    \/ \E p \in Procs : Signal(p)
    \/ Tick

(***************************************************************************)
(* parseCSVLine, character by character.  A line is a sequence of          *)
(* characters over the quote, the comma and one other character; a field   *)
(* is the sequence of characters collected in current.                     *)
(***************************************************************************)
MaxLen == 5

Alphabet == {"\"", ",", "x"}

Lines == UNION {[1 .. n -> Alphabet] : n \in 0 .. MaxLen}

\* no result yet: parseCSVLine returns at least one field
NoFields == <<>>

\* nothing parsed: no line given to parseCSVLine, no data text given to a
\* script
NoParsed == [line |-> <<>>, fields |-> NoFields, script |-> "none", text |-> <<>>,
             done |-> FALSE, values |-> <<>>]

\* a quote that is never taken as the first of a doubled quote
NeverEscaped(line, idx, inQuotes) ==
    FALSE

\* inQuotes && line[i + 1] === '"', the index idx counted from 1; beyond
\* the end line[i + 1] is undefined
EscapedQuote(line, idx, inQuotes) ==
    inQuotes /\ idx + 1 <= Len(line) /\ line[idx + 1] = "\""

\* the while loop of parseCSVLine from index idx on, and the final push
RECURSIVE parseCSVLineAt(_, _, _, _, _)
parseCSVLineAt(line, idx, current, inQuotes, result) ==
    IF idx > Len(line) THEN Append(result, current)
    ELSE IF line[idx] = "\""
    THEN IF EscapedQuote(line, idx, inQuotes)
         THEN parseCSVLineAt(line, idx + 2, Append(current, "\""), inQuotes, result)
         ELSE parseCSVLineAt(line, idx + 1, current, ~inQuotes, result)
    ELSE IF line[idx] = "," /\ ~inQuotes
    THEN parseCSVLineAt(line, idx + 1, <<>>, inQuotes, Append(result, current))
    ELSE parseCSVLineAt(line, idx + 1, Append(current, line[idx]), inQuotes, result)

\* parseCSVLine(line) on the characters of the line
parseCSVLineChars(line) == parseCSVLineAt(line, 1, <<>>, FALSE, <<>>)

(***************************************************************************)
(* The data lines of a file, character by character: the text after the    *)
(* header line, over the characters of a line and the line break.          *)
(***************************************************************************)
LineBreak == "\n"

WhiteSpace == {LineBreak, "\r", " "}

DataTexts == UNION {[1 .. n -> Alphabet \cup {LineBreak}] : n \in 0 .. MaxLen}

\* fileContent.split('\n'): the pieces between the line breaks, the one
\* after the last line break included
RECURSIVE splitChars(_, _)
splitChars(text, current) ==
    IF text = <<>> THEN <<current>>
    ELSE IF Head(text) = LineBreak THEN <<current>> \o splitChars(Tail(text), <<>>)
    ELSE splitChars(Tail(text), Append(current, Head(text)))

\* the lines readline emits: the same pieces, without an empty piece at
\* the end of the input
readline(text) ==
    LET pieces == splitChars(text, <<>>)
    IN IF pieces[Len(pieces)] = <<>> THEN SubSeq(pieces, 1, Len(pieces) - 1) ELSE pieces

\* line.trim() on characters
RECURSIVE trimChars(_)
trimChars(line) ==
    IF line = <<>> THEN line
    ELSE IF Head(line) \in WhiteSpace THEN trimChars(Tail(line))
    ELSE IF line[Len(line)] \in WhiteSpace THEN trimChars(SubSeq(line, 1, Len(line) - 1))
    ELSE line

\* the values arrays the line loop of script s gets from the data text:
\* every line that is not empty after trim() goes to parseCSVLine
DataValues(s, text) ==
    LET lines == IF s = "setup-db-fast" THEN splitChars(text, <<>>) ELSE readline(text)
        kept == SelectSeq(lines, LAMBDA line : trimChars(line) # <<>>)
    IN [n \in DOMAIN kept |-> parseCSVLineChars(trimChars(kept[n]))]

(***************************************************************************)
(* DatabaseService.searchRegistrations and the entries that reach it.  A   *)
(* name or postcode is a sequence of characters; an option that is         *)
(* undefined or the empty string is the empty sequence or "", a limit or   *)
(* offset that is undefined or 0 is 0: JavaScript takes all of them as     *)
(* false.                                                                  *)
(***************************************************************************)
MaxLimit == 2

MaxOffset == 2

MaxPages == 3

\* limit: req.query.limit ? parseInt(...) : 10, scaled down
DEFAULT_LIMIT == 2

\* a value that is missing from the arguments
Undefined == "undefined"

SearchRow(k, name, postcode, authority, tier) ==
    [registration_number |-> k, organisation_name |-> name, organisation_postcode |-> postcode,
     public_authority |-> authority, payment_tier |-> tier]

\* the rows a store may hold: two of them with the same name
SearchRows ==
    {SearchRow("Z1", <<"N", "a">>, <<"a">>, "Y", "Tier 1"),
     SearchRow("Z2", <<"n">>, <<"N">>, "N", "Tier 1"),
     SearchRow("Z3", <<"n">>, <<"a">>, "N", "Tier 2"),
     SearchRow("Z4", <<"a", "_">>, <<"N">>, "Y", "Tier 2")}

NoQuery == [organisationName |-> <<>>, registrationNumber |-> "", postcode |-> <<>>,
            publicAuthority |-> "", paymentTier |-> "", limit |-> 0, offset |-> 0]

\* the SearchQuery objects tried
Queries ==
    {[organisationName |-> n, registrationNumber |-> k, postcode |-> p,
      publicAuthority |-> a, paymentTier |-> t, limit |-> l, offset |-> o] :
        n \in {<<>>, <<"n">>, <<"a">>, <<"_">>, <<"%">>}, k \in {Undefined, "", "Z1", "Z9"},
        p \in {<<>>, <<"a">>}, a \in {"", "Y"}, t \in {"", "Tier 1"},
        l \in 0 .. MaxLimit, o \in 0 .. MaxOffset}

\* if (query.x) for a string: undefined and '' are false
Truthy(value) == value \notin {Undefined, ""}

\* if (query.x) for a sequence of characters: the empty one is false
TruthyText(value) == value # <<>>

\* the ASCII code of a character
Code(c) ==
    CASE c = "%" -> 37 [] c = "N" -> 78 [] c = "_" -> 95 [] c = "a" -> 97 [] c = "n" -> 110

\* SQLite's LIKE folds the case of ASCII letters
Lower(c) == IF c = "N" THEN "n" ELSE c

\* text LIKE pattern: % stands for any sequence of characters, _ for any one
\* character, every other character for itself in either case
RECURSIVE Like(_, _)
Like(text, pattern) ==
    IF pattern = <<>> THEN text = <<>>
    ELSE IF Head(pattern) = "%"
    THEN \E k \in 0 .. Len(text) : Like(SubSeq(text, k + 1, Len(text)), Tail(pattern))
    ELSE IF text = <<>> THEN FALSE
    ELSE /\ Head(pattern) = "_" \/ Lower(Head(pattern)) = Lower(Head(text))
         /\ Like(Tail(text), Tail(pattern))

\* the WHERE clause built from the options that are set
Where(row, query) ==
    /\ TruthyText(query.organisationName)
          => Like(row.organisation_name, <<"%">> \o query.organisationName \o <<"%">>)
    /\ Truthy(query.registrationNumber) => row.registration_number = query.registrationNumber
    /\ TruthyText(query.postcode)
          => Like(row.organisation_postcode, <<"%">> \o query.postcode \o <<"%">>)
    /\ Truthy(query.publicAuthority) => row.public_authority = query.publicAuthority
    /\ Truthy(query.paymentTier) => row.payment_tier = query.paymentTier

\* a < b in the BINARY collation
RECURSIVE Less(_, _)
Less(a, b) ==
    IF b = <<>> THEN FALSE
    ELSE IF a = <<>> THEN TRUE
    ELSE IF Code(Head(a)) # Code(Head(b)) THEN Code(Head(a)) < Code(Head(b))
    ELSE Less(Tail(a), Tail(b))

\* ORDER BY organisation_name: the orders in which SQLite may return the
\* rows (rows of equal name in any order)
OrderByName(rows) ==
    {result \in [1 .. Cardinality(rows) -> rows] :
        /\ \A m, n \in DOMAIN result : m < n => result[m] # result[n]
        /\ \A m, n \in DOMAIN result :
              m < n => ~Less(result[n].organisation_name, result[m].organisation_name)}

\* LIMIT alone: the offset is not applied
LimitOnly(result, limit, offset) ==
    IF limit = 0 THEN result
    ELSE SubSeq(result, 1, Min(limit, Len(result)))

\* LIMIT ? OFFSET ?, each clause present if its option is set
LimitOffset(result, limit, offset) ==
    IF limit = 0 THEN result
    ELSE SubSeq(result, offset + 1, Min(offset + limit, Len(result)))

\* what a call hands back: the rows, or the error it throws
Returned(result) == [ok |-> TRUE, rows |-> result]

Thrown == [ok |-> FALSE, rows |-> <<>>]

\* DatabaseService.searchRegistrations: the results the call may return.
\* OFFSET without LIMIT is not SQL: db.all rejects
searchRegistrations(store, query) ==
    IF query.limit = 0 /\ query.offset # 0 THEN {Thrown}
    ELSE {Returned(LimitOffset(result, query.limit, query.offset)) :
            result \in OrderByName({row \in store : Where(row, query)})}

\* the query each entry hands to IcoService.searchRegistrations, which
\* passes it on: the REST route /search fills in limit and offset, the
\* MCP tool search_ico_registrations passes its arguments as they are
EntryQuery(entry, args) ==
    IF entry = "rest"
    THEN [args EXCEPT !.limit = IF args.limit # 0 THEN args.limit ELSE DEFAULT_LIMIT]
    ELSE args

Entries == {"service", "rest", "mcp"}

\* IcoService.getRegistrationByNumber: results.length > 0 ? results[0] : null
getRegistrationByNumber(store, registrationNumber) ==
    {IF Len(result.rows) > 0 THEN <<result.rows[1]>> ELSE <<>> :
        result \in searchRegistrations(store, [NoQuery EXCEPT !.registrationNumber = registrationNumber])}


NoSearch == [store |-> {}, entry |-> "none", args |-> NoQuery, pages |-> <<>>,
             asked |-> FALSE, key |-> "", found |-> <<>>]

(***************************************************************************)
(* The stdio MCP server.  Standard input arrives in chunks; a chunk is a   *)
(* sequence of tokens, each the text of one JSON value (or of something    *)
(* that is no JSON) or the line end "\n".  A line of several texts in a    *)
(* row is no JSON.  An id or a field that is absent is "none".             *)
(***************************************************************************)
MaxChunks == 2

MaxTokens == 2

NoMessage == [json |-> "none", id |-> "none", method |-> "none", params |-> "none",
              name |-> "none", arguments |-> "none"]

Newline == [NoMessage EXCEPT !.json = "\n"]

Methods == {"none", "initialize", "tools/list", "tools/call", "notifications/initialized", "unknown/method"}

\* the objects a client may send: with or without id, method and params;
\* params name a tool and may carry arguments
Objects ==
    {[json |-> "object", id |-> id, method |-> method, params |-> params, name |-> name, arguments |-> args] :
        id \in {"none", "1"}, method \in Methods, params \in {"none", "object"},
        name \in {"none", "search_ico_registrations", "get_ico_registration", "no_such_tool"},
        args \in {"none", "object"}}

\* the texts of a line: text that is no JSON, the JSON values null and 5,
\* and the objects (fields of params only with params, params only with
\* tools/call)
Messages ==
    {[NoMessage EXCEPT !.json = json] : json \in {"invalid", "null", "number"}}
    \cup {message \in Objects :
            /\ message.params = "object" => message.method = "tools/call" /\ message.name # "none"
            /\ message.params = "none" => message.name = "none" /\ message.arguments = "none"}

\* a response object as JSON.stringify writes it: a field whose value is
\* undefined is left out
Response(id, kind, code) == [jsonrpc |-> "2.0", id |-> id, kind |-> kind, code |-> code]

\* the exception leaves processMessage
Raised == [jsonrpc |-> "none", id |-> "none", kind |-> "raised", code |-> 0]

\* the try block of processMessage: TRUE if it throws.  Only tools/call
\* can: params or arguments missing, a tool that does not exist, a store
\* that is not initialized or whose query fails
Throws(message, db) ==
    /\ message.method = "tools/call"
    /\ \/ message.params = "none"
       \/ message.name = "no_such_tool"
       \/ message.arguments = "none"
       \/ db # "ready"

\* the exception is not caught
Rethrow(message) == Raised

\* catch (error): the error object with the id of the message
CatchError(message) == Response(message.id, "error", -1)

\* processMessage(message) for a value that JSON.parse returned
processMessage(message, db) ==
    IF message.json = "null" THEN Raised
    ELSE IF message.method = "none" THEN Response(message.id, "error", -32601)
    ELSE IF Throws(message, db) THEN CatchError(message)
    ELSE IF message.method \in {"initialize", "tools/list", "tools/call"}
    THEN Response(message.id, "result", 0)
    ELSE Response(message.id, "error", -32601)

\* buffer.split('\n') of a sequence of tokens: the lines before each line
\* end, and the rest
RECURSIVE SplitLines(_, _, _)
SplitLines(tokens, current, lines) ==
    IF tokens = <<>> THEN [lines |-> lines, rest |-> current]
    ELSE IF Head(tokens) = Newline THEN SplitLines(Tail(tokens), <<>>, Append(lines, current))
    ELSE SplitLines(Tail(tokens), Append(current, Head(tokens)), lines)

\* what the handler writes for one line with text: the line of
\* JSON.stringify(response), or nothing if JSON.parse or processMessage
\* throws
WrittenFor(line, db) ==
    IF Len(line) # 1 \/ line[1].json = "invalid" THEN <<>>
    ELSE IF processMessage(line[1], db) = Raised THEN <<>>
    ELSE <<processMessage(line[1], db)>>

NoMcp == [phase |-> "off", db |-> "not initialized", message |-> NoMessage, chunks |-> 0,
          buffer |-> <<>>, handlers |-> <<>>, stdout |-> <<>>, handled |-> <<>>]

\* a request the client sends besides the message of the run
Follower == [NoMessage EXCEPT !.json = "object", !.id = "2", !.method = "initialize"]

\* the chunks standard input may deliver: the message of the run, the
\* other request and line ends
Chunks == UNION {[1 .. n -> {mcp.message, Follower, Newline}] : n \in 1 .. MaxTokens}

\* await this.icoService...: the handler of the line waits for the
\* database; every other line is through before the next chunk is read
AwaitsDatabase(line) ==
    /\ Len(line) = 1
    /\ line[1].json = "object"
    /\ line[1].method = "tools/call"
    /\ line[1].params = "object"
    /\ line[1].name \in {"search_ico_registrations", "get_ico_registration"}
    /\ line[1].arguments = "object"

(***************************************************************************)
(* The HTTP bridge.  Every line of standard input is one request; requests *)
(* that are forwarded to the HTTP server are in flight side by side, each  *)
(* in its own call of makeHttpRequest.                                     *)
(***************************************************************************)
MaxAttempts == 2

MaxDelay == 2

MaxRequests == 2

\* the lines a client may send to the bridge: text that is no JSON, the
\* JSON value null, and objects with or without id and params
BridgeMessages ==
    {[NoMessage EXCEPT !.json = json] : json \in {"invalid", "null"}}
    \cup {[NoMessage EXCEPT !.json = "object", !.id = id, !.method = method, !.params = params] :
            id \in {"none", "1"}, params \in {"none", "object"},
            method \in {"initialize", "tools/list", "tools/call", "resources/list",
                        "notifications/initialized", "unknown/method"}}

RECURSIVE Pow2(_)
Pow2(k) == IF k = 0 THEN 1 ELSE 2 * Pow2(k - 1)

\* the delay is the same after every attempt
FixedDelay(delay, attempt) == delay

\* const delay = RECONNECT_DELAY * Math.pow(2, attempt)
Backoff(delay, attempt) == delay * Pow2(attempt)

\* console.log(JSON.stringify(...)) of a result, and sendError
Result(id) == Response(id, "result", 0)

sendError(id, code) == Response(id, "error", code)

\* a request the bridge has read: the attempts at the HTTP server so far
\* with their outcomes, the delays waited, and what was written for it
NoRequest == [message |-> NoMessage, pc |-> "done", attempt |-> 0, outcomes |-> <<>>,
              waits |-> <<>>, written |-> <<>>]

\* processRequest up to its first await: what is written at once, and
\* whether makeHttpRequest is entered.  const { id, method, params } of
\* null throws outside the try: the promise of the line handler rejects
processRequest(message) ==
    IF message.json = "invalid" THEN [NoRequest EXCEPT !.message = message, !.written = <<sendError("null", -32603)>>]
    ELSE IF message.json = "null" THEN [NoRequest EXCEPT !.message = message, !.pc = "rejected"]
    ELSE IF message.id = "none" THEN [NoRequest EXCEPT !.message = message]
    ELSE IF message.method \in {"initialize", "resources/list"}
    THEN [NoRequest EXCEPT !.message = message, !.written = <<Result(message.id)>>]
    ELSE IF message.method = "tools/call" /\ message.params = "none"
    THEN [NoRequest EXCEPT !.message = message, !.written = <<sendError(message.id, -32603)>>]
    ELSE IF message.method \in {"tools/list", "tools/call"}
    THEN [NoRequest EXCEPT !.message = message, !.pc = "attempt"]
    ELSE [NoRequest EXCEPT !.message = message, !.written = <<sendError(message.id, -32601)>>]

\* answered: the requests in the order their responses were written
NoBridge == [phase |-> "off", message |-> NoMessage, MAX_RETRY_ATTEMPTS |-> 0, RECONNECT_DELAY |-> 0,
             requests |-> <<>>, stdout |-> <<>>, answered |-> <<>>]

\* the servers are off
InitServer ==
    /\ parsed = NoParsed
    /\ search = NoSearch
    /\ mcp = NoMcp
    /\ bridge = NoBridge

(***************************************************************************)
(* The text of a register file.  A line is a sequence of tokens: field     *)
(* values, the separator "," and, in a file with Windows line ends that is *)
(* split at "\n", the "\r" that stays at the end of every line.  Values    *)
(* hold no quote and no comma; an empty field has no token.                *)
(***************************************************************************)
MaxRows == 2

Columns == <<"Registration_number", "Organisation_name", "Organisation_postcode">>

\* a file: the column names of its header line, the fields of its data
\* lines, and its line end
NoText == [header |-> <<>>, rows |-> <<>>, eol |-> "\n"]

\* current += char, for the pieces that meet in the lines of the model
Concat(current, piece) ==
    CASE current = "" -> piece
      [] piece = "\r" /\ current = "Registration_number" -> "Registration_number\r"
      [] piece = "\r" /\ current = "Organisation_name" -> "Organisation_name\r"
      [] piece = "\r" /\ current = "Organisation_postcode" -> "Organisation_postcode\r"

\* the fields of a line joined with ","
RECURSIVE Join(_)
Join(fields) ==
    IF fields = <<>> THEN <<>>
    ELSE (IF Head(fields) = "" THEN <<>> ELSE <<Head(fields)>>)
         \o (IF Len(fields) > 1 THEN <<",">> \o Join(Tail(fields)) ELSE <<>>)

\* parseCSVLine on a line without quotes: the fields between the commas
RECURSIVE parseCSVLineFrom(_, _, _)
parseCSVLineFrom(line, current, result) ==
    IF line = <<>> THEN Append(result, current)
    ELSE IF Head(line) = "," THEN parseCSVLineFrom(Tail(line), "", Append(result, current))
    ELSE parseCSVLineFrom(Tail(line), Concat(current, Head(line)), result)

parseCSVLine(line) == parseCSVLineFrom(line, "", <<>>)

\* String.prototype.trim at the start of a value / at its end
TrimStart(value) == IF value = " Z1" THEN "Z1" ELSE value

TrimEnd(value) == IF value = "acme " THEN "acme" ELSE value

\* line.trim(): white space and line terminators go from both ends of the
\* line, the commas stop it
trim(line) ==
    LET l1 == IF line # <<>> /\ line[Len(line)] = "\r" THEN SubSeq(line, 1, Len(line) - 1) ELSE line
        l2 == IF l1 # <<>> THEN [l1 EXCEPT ![1] = TrimStart(@)] ELSE l1
    IN IF l2 # <<>> THEN [l2 EXCEPT ![Len(l2)] = TrimEnd(@)] ELSE l2

\* the lines setup-db-fast gets from fileContent.split('\n') (the last one
\* is the empty piece after the final line end), and the lines readline
\* delivers to setup-db-streaming (crlfDelay: Infinity, no line end)
ReadLines(s, text) ==
    LET all == <<text.header>> \o text.rows
    IN IF s = "setup-db-fast"
       THEN [n \in 1 .. (Len(all) + 1) |->
                IF n > Len(all) THEN <<>>
                ELSE Join(all[n]) \o (IF text.eol = "\r\n" THEN <<"\r">> ELSE <<>>)]
       ELSE [n \in 1 .. Len(all) |-> Join(all[n])]

\* columnMap.get(fieldName): the index of the last header of that name,
\* counted from 1, or 0 for undefined
columnMap(headers, fieldName) ==
    IF \E k \in 1 .. Len(headers) : headers[k] = fieldName
    THEN CHOOSE k \in 1 .. Len(headers) :
            /\ headers[k] = fieldName
            /\ \A j \in (k + 1) .. Len(headers) : headers[j] # fieldName
    ELSE 0

\* index !== undefined ? values[index] || '' : ''
getField(headers, values, fieldName) ==
    LET index == columnMap(headers, fieldName)
    IN IF index # 0 /\ index <= Len(values) THEN values[index] ELSE ""

\* a data line as the loop of the script handles it: trimmed, passed over
\* if empty, else split and its fields looked up by header name
ParseLine(headers, line) ==
    IF trim(line) = <<>>
    THEN [kind |-> "blank", Registration_number |-> "", Organisation_name |-> ""]
    ELSE [kind |-> "data",
          Registration_number |-> getField(headers, parseCSVLine(trim(line)), "Registration_number"),
          Organisation_name |-> getField(headers, parseCSVLine(trim(line)), "Organisation_name")]

\* the line setup-db-streaming takes as the header: the first one that is
\* not empty after trim(), or 0
HeaderAt(lines) ==
    IF \A n \in DOMAIN lines : trim(lines[n]) = <<>> THEN 0
    ELSE CHOOSE n \in DOMAIN lines :
            /\ trim(lines[n]) # <<>>
            /\ \A m \in 1 .. (n - 1) : trim(lines[m]) = <<>>

\* the header line and the parsed data lines of a text; setup-db-fast
\* parses lines[0] as it is, setup-db-streaming trims the header as well
\* and takes the first line that is not empty
ParseFile(s, text) ==
    LET lines == ReadLines(s, text)
        first == IF s = "setup-db-fast" THEN 1 ELSE HeaderAt(lines)
        headers == IF first = 0 THEN <<>>
                   ELSE parseCSVLine(IF s = "setup-db-fast" THEN lines[1] ELSE trim(lines[first]))
    IN [n \in DOMAIN lines |-> IF n = first THEN HeaderLine ELSE ParseLine(headers, lines[n])]

\* register files whose header lacks the Registration_number column or the
\* Organisation_name column
HeaderlessTexts ==
    {[header |-> <<"Organisation_name", "Organisation_postcode">>,
      rows |-> <<<<"acme", "x">>, <<"nhs", "">>, <<"bolt", "x">>>>, eol |-> "\n"],
     [header |-> <<"Registration_number", "Organisation_postcode">>,
      rows |-> <<<<"Z1", "x">>>>, eol |-> "\r\n"]}

\* setup-db reads the file with the csv-parser package, which is not part
\* of the sources: the texts go to the two scripts that parse themselves
HeaderlessFiles(s) ==
    IF s = "setup-db" THEN {} ELSE {ParseFile(s, text) : text \in HeaderlessTexts}

\* the statements of a queue run in order
RECURSIVE ExecAll(_, _)
ExecAll(d, queue) ==
    IF queue = <<>> THEN d ELSE ExecAll(ExecStmt(d, Head(queue), FALSE).db, Tail(queue))

NoOutcome == [rows |-> {}, imported |-> -1, skipped |-> -1]

\* what the line loop of script s makes of a text, from an empty table:
\* the rows stored and the two counters
Outcome(s, text) ==
    LET lines == ParseFile(s, text)
        js == IF s = "setup-db-fast" THEN processRecords(lines, JS) ELSE BatchLines(lines, JS).js
    IN [rows |-> ExecAll(DB, js.dbQueue).regs,
        imported |-> js.recordCount, skipped |-> js.skippedRecords]

\* the permutations of the columns
Perms == {p \in [1 .. Len(Columns) -> 1 .. Len(Columns)] : \A j, k \in DOMAIN p : j # k => p[j] # p[k]}

\* one permutation applied to the header and to every data line
Permute(text, p) ==
    [text EXCEPT !.header = [k \in DOMAIN p |-> text.header[p[k]]],
                 !.rows = [n \in DOMAIN text.rows |-> [k \in DOMAIN p |-> text.rows[n][p[k]]]]]

\* the data lines of the texts tried: a key with or without a leading
\* blank or none, a name with or without a trailing blank
Rows == {" Z1", "Z1", ""} \X {"acme", "acme "} \X {"", "x"}

Texts ==
    {[header |-> Columns, rows |-> rows, eol |-> eol] :
        rows \in UNION {[1 .. n -> Rows] : n \in 1 .. MaxRows}, eol \in {"\n", "\r\n"}}

NoTrial == [script |-> "none", text |-> NoText, perm |-> <<>>, original |-> NoOutcome, permuted |-> NoOutcome,
            fast |-> NoOutcome, streaming |-> NoOutcome]

InitParse ==
    /\ InitImport
    /\ InitCron
    /\ InitServer
    /\ trial \in {[NoTrial EXCEPT !.script = s, !.text = text, !.perm = p] :
                    s \in {"setup-db-fast", "setup-db-streaming"}, text \in Texts, p \in Perms}

\* the file is imported as it is
ImportOriginal ==
    /\ trial.original = NoOutcome
    /\ trial' = [trial EXCEPT !.original = Outcome(trial.script, trial.text)]
    /\ UNCHANGED <<importVars, cronVars, serverVars>>

\* the file is imported with its columns permuted
ImportPermuted ==
    /\ trial.permuted = NoOutcome
    /\ trial' = [trial EXCEPT !.permuted = Outcome(trial.script, Permute(trial.text, trial.perm))]
    /\ UNCHANGED <<importVars, cronVars, serverVars>>

NextParse ==
    \/ ImportOriginal
    \/ ImportPermuted

\* the texts with an empty line before the header line
BlankFirstTexts ==
    {[text EXCEPT !.header = <<>>, !.rows = <<Columns>> \o text.rows] : text \in Texts}

InitScripts ==
    /\ InitImport
    /\ InitCron
    /\ InitServer
    /\ trial \in {[NoTrial EXCEPT !.script = "all", !.text = text] : text \in Texts \cup BlankFirstTexts}

\* the file is imported by setup-db-fast
ImportFast ==
    /\ trial.script = "all"
    /\ trial.fast = NoOutcome
    /\ trial' = [trial EXCEPT !.fast = Outcome("setup-db-fast", trial.text)]
    /\ UNCHANGED <<importVars, cronVars, serverVars>>

\* the file is imported by setup-db-streaming
ImportStreaming ==
    /\ trial.script = "all"
    /\ trial.streaming = NoOutcome
    /\ trial' = [trial EXCEPT !.streaming = Outcome("setup-db-streaming", trial.text)]
    /\ UNCHANGED <<importVars, cronVars, serverVars>>

NextScripts ==
    \/ ImportFast
    \/ ImportStreaming

InitQuoted ==
    /\ InitImport
    /\ InitCron
    /\ trial = NoTrial
    /\ search = NoSearch
    /\ mcp = NoMcp
    /\ bridge = NoBridge
    /\ parsed \in {[NoParsed EXCEPT !.script = s, !.text = text] :
                     s \in {"setup-db-fast", "setup-db-streaming"}, text \in DataTexts}

\* the line loop of the script runs over the data text
ImportText ==
    /\ parsed.script # "none"
    /\ ~parsed.done
    /\ parsed' = [parsed EXCEPT !.done = TRUE, !.values = DataValues(parsed.script, parsed.text)]
    /\ UNCHANGED <<importVars, cronVars, trial, search, mcp, bridge>>

NextQuoted ==
    \/ ImportText

InitLine ==
    /\ InitImport
    /\ InitCron
    /\ trial = NoTrial
    /\ parsed \in {[NoParsed EXCEPT !.line = line] : line \in Lines}
    /\ search = NoSearch
    /\ mcp = NoMcp
    /\ bridge = NoBridge

\* parseCSVLine is called on the line
ParseLineChars ==
    /\ parsed.fields = NoFields
    /\ parsed' = [parsed EXCEPT !.fields = parseCSVLineChars(parsed.line)]
    /\ UNCHANGED <<importVars, cronVars, trial, search, mcp, bridge>>

NextLine ==
    \/ ParseLineChars

InitSearch ==
    /\ InitImport
    /\ InitCron
    /\ trial = NoTrial
    /\ parsed = NoParsed
    /\ mcp = NoMcp
    /\ bridge = NoBridge
    /\ search \in {[NoSearch EXCEPT !.store = store, !.args = args] :
                      store \in SUBSET SearchRows, args \in Queries}

\* a search arrives through one of the entries
Search(entry) ==
    /\ search.entry = "none"
    /\ ~search.asked
    /\ \E result \in searchRegistrations(search.store, EntryQuery(entry, search.args)) :
          search' = [search EXCEPT !.entry = entry, !.pages = <<result>>]
    /\ UNCHANGED <<importVars, cronVars, trial, parsed, mcp, bridge>>

\* the caller asks for the next page: same filter and limit, the offset
\* moved on by the limit
NextPage ==
    /\ search.entry = "service"
    /\ search.args.limit # 0
    /\ search.args.offset = 0
    /\ Len(search.pages) < MaxPages
    /\ \E result \in searchRegistrations(search.store,
                        [search.args EXCEPT !.offset = Len(search.pages) * search.args.limit]) :
          search' = [search EXCEPT !.pages = Append(@, result)]
    /\ UNCHANGED <<importVars, cronVars, trial, parsed, mcp, bridge>>

\* getRegistrationByNumber is called with the registration number of the
\* arguments
GetByNumber ==
    /\ search.entry = "none"
    /\ ~search.asked
    /\ search.args = [NoQuery EXCEPT !.registrationNumber = search.args.registrationNumber]
    /\ \E found \in getRegistrationByNumber(search.store, search.args.registrationNumber) :
          search' = [search EXCEPT !.asked = TRUE, !.key = search.args.registrationNumber, !.found = found]
    /\ UNCHANGED <<importVars, cronVars, trial, parsed, mcp, bridge>>

NextSearch ==
    \/ \E entry \in Entries : Search(entry)
    \/ NextPage
    \/ GetByNumber

InitMcp ==
    /\ InitImport
    /\ InitCron
    /\ trial = NoTrial
    /\ parsed = NoParsed
    /\ search = NoSearch
    /\ bridge = NoBridge
    /\ mcp \in {[NoMcp EXCEPT !.phase = "starting", !.message = message] : message \in Messages}

\* start(): the database opens and the data handler is set up, or
\* initialize throws and main exits the process.  A store that opened may
\* later fail its queries
Start ==
    /\ mcp.phase = "starting"
    /\ \/ \E db \in {"ready", "failing"} : mcp' = [mcp EXCEPT !.phase = "listening", !.db = db]
       \/ mcp' = [mcp EXCEPT !.phase = "exited"]
    /\ UNCHANGED <<importVars, cronVars, trial, parsed, search, bridge>>

\* process.stdin.on('data'): the chunk joins the buffer, the lines before
\* the last line end are taken out, and the handler starts on those that
\* have text
Data ==
    /\ mcp.phase = "listening"
    /\ mcp.chunks < MaxChunks
    /\ \E chunk \in Chunks :
          LET split == SplitLines(mcp.buffer \o chunk, <<>>, <<>>)
          IN mcp' = [mcp EXCEPT !.chunks = @ + 1,
                                !.buffer = split.rest,
                                !.handlers = Append(@, SelectSeq(split.lines, LAMBDA line : line # <<>>))]
    /\ UNCHANGED <<importVars, cronVars, trial, parsed, search, bridge>>

\* a handler takes its next line: JSON.parse, await processMessage,
\* process.stdout.write; the handler of a later chunk goes ahead while
\* those of the chunks before it wait for the database
HandleLine(h) ==
    /\ mcp.phase = "listening"
    /\ mcp.handlers[h] # <<>>
    /\ \A g \in 1 .. (h - 1) :
          IF mcp.handlers[g] = <<>> THEN TRUE ELSE AwaitsDatabase(Head(mcp.handlers[g]))
    /\ LET line == Head(mcp.handlers[h])
       IN mcp' = [mcp EXCEPT !.handlers[h] = Tail(@),
                             !.stdout = @ \o WrittenFor(line, mcp.db),
                             !.handled = Append(@, [line |-> line, written |-> WrittenFor(line, mcp.db),
                                                        handler |-> h])]
    /\ UNCHANGED <<importVars, cronVars, trial, parsed, search, bridge>>

NextMcp ==
    \/ Start
    \/ Data
    \/ \E h \in 1 .. MaxChunks : h \in DOMAIN mcp.handlers /\ HandleLine(h)

InitBridge ==
    /\ InitImport
    /\ InitCron
    /\ trial = NoTrial
    /\ parsed = NoParsed
    /\ search = NoSearch
    /\ mcp = NoMcp
    /\ bridge \in {[NoBridge EXCEPT !.phase = "running", !.message = message,
                                    !.MAX_RETRY_ATTEMPTS = max, !.RECONNECT_DELAY = delay] :
                      message \in BridgeMessages, max \in 0 .. MaxAttempts, delay \in 1 .. MaxDelay}

\* rl.on('line'): processRequest runs to its first await
Line ==
    /\ bridge.phase = "running"
    /\ Len(bridge.requests) < MaxRequests
    /\ LET request == processRequest(bridge.message)
       IN bridge' = [bridge EXCEPT !.requests = Append(@, request),
                                   !.stdout = @ \o request.written,
                                   !.answered = IF request.written = <<>> THEN @
                                                ELSE Append(@, Len(bridge.requests) + 1),
                                   !.phase = IF request.pc = "rejected" THEN "crashed" ELSE @]
    /\ UNCHANGED <<importVars, cronVars, trial, parsed, search, mcp>>

\* the HTTP request of an attempt settles.  Success: the result is written.
\* Failure: the delay is waited for if attempt < MAX_RETRY_ATTEMPTS, else
\* makeHttpRequest throws and the catch of the case writes the error
Settle(r, ok) ==
    /\ bridge.phase = "running"
    /\ bridge.requests[r].pc = "attempt"
    /\ LET request == bridge.requests[r]
           outcomes == Append(request.outcomes, ok)
       IN IF ok
          THEN bridge' = [bridge EXCEPT !.requests[r].outcomes = outcomes,
                                        !.requests[r].pc = "done",
                                        !.requests[r].written = <<Result(request.message.id)>>,
                                        !.stdout = Append(@, Result(request.message.id)),
                                        !.answered = Append(@, r)]
          ELSE IF request.attempt < bridge.MAX_RETRY_ATTEMPTS
          THEN bridge' = [bridge EXCEPT !.requests[r].outcomes = outcomes,
                                        !.requests[r].pc = "wait",
                                        !.requests[r].waits =
                                            Append(@, Backoff(bridge.RECONNECT_DELAY, request.attempt))]
          ELSE bridge' = [bridge EXCEPT !.requests[r].outcomes = outcomes,
                                        !.requests[r].pc = "done",
                                        !.requests[r].written = <<sendError(request.message.id, -32603)>>,
                                        !.stdout = Append(@, sendError(request.message.id, -32603)),
                                        !.answered = Append(@, r)]
    /\ UNCHANGED <<importVars, cronVars, trial, parsed, search, mcp>>

\* the timer of the delay fires: attempt++
Retry(r) ==
    /\ bridge.phase = "running"
    /\ bridge.requests[r].pc = "wait"
    /\ bridge' = [bridge EXCEPT !.requests[r].pc = "attempt", !.requests[r].attempt = @ + 1]
    /\ UNCHANGED <<importVars, cronVars, trial, parsed, search, mcp>>

NextBridge ==
    \/ Line
    \/ \E r \in 1 .. MaxRequests, ok \in BOOLEAN : r \in DOMAIN bridge.requests /\ Settle(r, ok)
    \/ \E r \in 1 .. MaxRequests : r \in DOMAIN bridge.requests /\ Retry(r)

Init == InitImport /\ InitCron /\ trial = NoTrial /\ InitServer

\* a step of a run that has started, or of the reader
Step ==
    \/ SetupDb
    \/ SetupDbFast
    \/ SetupDbStreaming
    \/ \E k \in 1 .. Len(dbQueue), busy \in BOOLEAN, uncaught \in BOOLEAN : DbStatementDone(k, busy, uncaught)
    \/ ReadCurrentVersion

Next ==
    \/ \E s \in Scripts, f \in SourceFiles \cup {NoFile} : StartRun(s, f)
    \/ Step

Spec == Init /\ [][Next]_vars

\* the import scripts run on the edge-case files
NextEdge ==
    \/ \E s \in Scripts : \E f \in EdgeFiles \cup HeaderlessFiles(s) : StartRun(s, f)
    \/ Step

SpecEdge == Init /\ [][NextEdge]_vars

SpecCron == Init /\ [][NextCron]_vars

\* a command that runs comes to an end, and a process that can take its
\* next step takes it
FairCron ==
    \A p \in Procs :
        /\ WF_vars(\E ok \in BOOLEAN : runCommand(p, ok))
        /\ WF_vars(RemoveExists(p))
        /\ WF_vars(RemoveUnlink(p))

\* the clock moves on by more than MAX_LOCK_AGE at once
LockAgePasses ==
    /\ now + MAX_LOCK_AGE + 1 <= MaxTime
    /\ now' = now + MAX_LOCK_AGE + 1
    /\ UNCHANGED <<lockFile, cpc, starts, checked, importVars, trial, serverVars>>

\* the processes under a coarse clock: between two steps either no time
\* passes or more than MAX_LOCK_AGE
NextCronHour ==
    \/ \E p \in Procs : CronStart(p)
    \/ \E p \in Procs : CheckExists(p)
    \/ \E p \in Procs : CheckStat(p)
    \/ \E p \in Procs : CheckUnlink(p)
    \/ \E p \in Procs : createLockFile(p)
    \/ \E p \in Procs, ok \in BOOLEAN : runCommand(p, ok)
    \/ \E p \in Procs : RemoveExists(p)
    \/ \E p \in Procs : RemoveUnlink(p)
    \/ \E p \in Procs : Signal(p)
    \/ LockAgePasses

SpecCronFair == Init /\ [][NextCronHour]_vars /\ FairCron

\* the same with the clock running
SpecCronFairClock == Init /\ [][NextCron]_vars /\ FairCron

SpecParse == InitParse /\ [][NextParse]_vars

SpecScripts == InitScripts /\ [][NextScripts]_vars

SpecLine == InitLine /\ [][NextLine]_vars

SpecQuoted == InitQuoted /\ [][NextQuoted]_vars

SpecSearch == InitSearch /\ [][NextSearch]_vars

SpecMcp == InitMcp /\ [][NextMcp]_vars

SpecBridge == InitBridge /\ [][NextBridge]_vars


(***************************************************************************)
(* Properties.                                                             *)
(***************************************************************************)

\* the accepted data lines of a whole file
AcceptedCount(content) == Len(SelectSeq(SubSeq(content, 2, Len(content)), Accepted))

\* C1: importing the same file twice in a row with the same script (no
\* injected failure) ends with exactly one active data_versions row, the one
\* of the file's hash, and with as many registration rows as after the first
\* run.
C1_SameFileTwice ==
    (pc = "exited" /\ fault = "none" /\ csv # NoFile /\ prev.csv = csv /\ prev.script = script)
        => /\ Cardinality(ActiveRows(data_versions)) = 1
           /\ \A v \in ActiveRows(data_versions) : v.file_sha256 = Sha256(csv)
           /\ Cardinality(ico_registrations) = prev.regCount

\* C2: a run whose file hash was already recorded when it started changes
\* neither ico_registrations nor data_versions in any of its steps.
C2_RecordedHashIsNoOp ==
    [][(pc \notin {"idle", "exited"} /\ csv # NoFile /\ Sha256(csv) \in Hashes(startVers))
          => (ico_registrations' = ico_registrations /\ data_versions' = data_versions)]_vars

OneActiveUniqueHash(versions) ==
    /\ Cardinality(ActiveRows(versions)) <= 1
    /\ \A v, w \in versions : v.file_sha256 = w.file_sha256 => v = w

C4_ReaderSeesOneActive ==
    seen.recording => (seen.active = 1 /\ seen.current = 1)

\* C5: a data_versions row, once there, stays with its id, hash, size and
\* record count in every later state.
C5_VersionRowsStay ==
    [][\A v \in data_versions : \E w \in data_versions' :
          /\ w.id = v.id
          /\ w.file_sha256 = v.file_sha256
          /\ w.file_size = v.file_size
          /\ w.record_count = v.record_count]_vars

\* C6: a run (no injected failure) that recorded a version for a hash the
\* ledger already had ends with exit code 0 and with the ledger rows and
\* statuses it had before the recording.
C6_DuplicateIsSuccessfulNoOp ==
    (pc = "exited" /\ fault = "none" /\ fileSha256 # NoFile /\ fileSha256 \in Hashes(recVers))
        => (exitCode = 0 /\ data_versions = recVers)

\* C7: at most one cron-update process is between createLockFile and
\* removeLockFile.
C7_LockMutualExclusion ==
    Cardinality({p \in Procs : Updating(p)}) <= 1

\* C8: when setup-db-streaming writes the data_versions row, every line has
\* been read, taken from pendingLines and processed, no batch is in
\* progress, no transaction is open, and the row's record_count is the
\* number of accepted lines of the file.
C8_VersionOnCompletion ==
    [][(pc = "str_version" /\ pc' = "str_close")
          => /\ readPos > Len(csv)
             /\ pendingLines = <<>>
             /\ ~processing
             /\ ~transactionActive
             /\ ~dbTxnOpen
             /\ \A v \in txnVers' : v.file_sha256 = fileSha256 => v.record_count = AcceptedCount(csv)]_vars

\* C9: from the step in which a BEGIN or COMMIT of a batch fails, the run
\* commits nothing more to ico_registrations, writes and archives no
\* data_versions row, and ends with exit code 1.
C9_BatchFailureAborts ==
    [][fault' \in {"begin", "commit"}
          => /\ ico_registrations' = ico_registrations
             /\ data_versions' = data_versions
             /\ (pc' = "exited" => exitCode' = 1)]_vars

\* C10: a run that failed because the file was missing or a read of it
\* failed ends with exit code 1 and with ico_registrations and data_versions
\* as they were when it started.
C10_ReadFailureChangesNothing ==
    (pc = "exited" /\ fault \in {"missing", "read_hash", "read_parse"})
        => /\ exitCode = 1
           /\ ico_registrations = startRegs
           /\ data_versions = startVers

\* C11: after every successful import the record_count of the active
\* data_versions row is the number of rows in ico_registrations.
C11_RecordCountIsStoredCount ==
    (pc = "exited" /\ exitCode = 0)
        => \A v \in ActiveRows(data_versions) : v.record_count = getRecordCount(ico_registrations)

\* the non-blank lines after the header
DataLines(content) == SelectSeq(SubSeq(content, 2, Len(content)), LAMBDA l : l.kind = "data")

\* C12: a successful import has counted as imported exactly the accepted
\* data lines and (setup-db-fast, setup-db-streaming, which count them) as
\* skipped exactly the other data lines, and the store holds exactly the
\* accepted rows, one per distinct key.
C12_CountsAndStoredRows ==
    (pc = "exited" /\ exitCode = 0)
        => /\ recordCount = AcceptedCount(csv)
           /\ script # "setup-db" => recordCount + skippedRecords = Len(DataLines(csv))
           /\ \A r \in ico_registrations :
                 \E n \in 1 .. Len(csv) : Accepted(csv[n]) /\ Registration(csv[n]) = r
           /\ \A n \in 1 .. Len(csv) :
                 Accepted(csv[n]) => \E r \in ico_registrations : r.registration_number = csv[n].Registration_number
           /\ \A r, q \in ico_registrations : r.registration_number = q.registration_number => r = q

\* the row comes from one accepted line of a source file
FromSourceLine(r) ==
    \E f \in SourceFiles : \E n \in 1 .. Len(f) :
        /\ f[n].kind = "data"
        /\ r.registration_number = f[n].Registration_number
        /\ r.organisation_name = f[n].Organisation_name

\* C13: in every state, in the middle of an import and after a failed one
\* too, every row of ico_registrations (committed, or written inside the
\* open transaction) has a non-empty registration_number and a non-empty
\* organisation_name, both taken from one source line.
C13_StoredRowsHaveRequiredFields ==
    \A r \in ico_registrations \cup txnRegs :
        /\ r.registration_number # ""
        /\ r.organisation_name # ""
        /\ FromSourceLine(r)

\* C13 witness: an import of the file with a line that has no key is under
\* way, and the row of the line after it is stored.
C13_Witness ==
    /\ pc \notin {"idle", "exited"}
    /\ csv = FileB
    /\ readPos > Len(csv) \/ script # "setup-db-streaming"
    /\ [registration_number |-> "Z3", organisation_name |-> "bolt"] \in ico_registrations

\* C14: after a successful import of a file with two accepted rows of the
\* same key and different names, exactly one row with that key is stored
\* and it is the row that comes last in the file.
C14_LaterRowWins ==
    (pc = "exited" /\ exitCode = 0)
        => \A m, n \in 1 .. Len(csv) :
              (/\ m < n
               /\ Accepted(csv[m]) /\ Accepted(csv[n])
               /\ csv[m].Registration_number = csv[n].Registration_number
               /\ csv[m].Organisation_name # csv[n].Organisation_name
               /\ \A k \in (n + 1) .. Len(csv) :
                     ~(Accepted(csv[k]) /\ csv[k].Registration_number = csv[n].Registration_number))
              => {r \in ico_registrations : r.registration_number = csv[n].Registration_number}
                     = {Registration(csv[n])}

\* the statement SQLite runs in the step, if the step runs a queued
\* statement of setup-db-fast or setup-db-streaming
RunsStatement(k) ==
    /\ script \in {"setup-db-fast", "setup-db-streaming"}
    /\ \E busy \in BOOLEAN, uncaught \in BOOLEAN : DbStatementDone(k, busy, uncaught)

\* C15: during an import by setup-db-fast or setup-db-streaming every row
\* upsert runs inside an open transaction, a BEGIN runs only when no
\* transaction is open and a COMMIT only when one is, and no transaction
\* holds more than BATCH_SIZE uncommitted upserts.
C15_UpsertsInsideBatchTransactions ==
    [][\A k \in 1 .. Len(dbQueue) :
          RunsStatement(k)
              => /\ dbQueue[k].kind = "UPSERT" => dbTxnOpen
                 /\ dbQueue[k].kind = "BEGIN" => ~dbTxnOpen
                 /\ dbQueue[k].kind = "COMMIT" => dbTxnOpen
                 /\ txnUpserts' <= BATCH_SIZE]_vars

\* the processBatch calls of setup-db-streaming that are past the guard and
\* have not returned: each awaits the callback of one queued statement
InProgress ==
    {k \in 1 .. Len(dbQueue) : dbQueue[k].tag \in {"pb_begin", "pb_commit", "pb_rollback"}}

RegsOf(lines) == [n \in 1 .. Len(lines) |-> Registration(lines[n])]

\* the table after the upserts of regs, in order
RECURSIVE Stored(_, _)
Stored(table, regs) ==
    IF regs = <<>> THEN table ELSE Stored(Upsert(table, Head(regs)), Tail(regs))

\* the accepted rows among the lines read so far, in source order
AcceptedRead == RegsOf(SelectSeq(SubSeq(csv, 1, readPos - 1), Accepted))

\* the rows of the queued upserts, in queue order
Queued ==
    LET q == SelectSeq(dbQueue, LAMBDA s : s.kind = "UPSERT")
    IN [n \in 1 .. Len(q) |-> q[n].reg]

\* the accepted rows among the lines read and not yet taken by processBatch
Pending == RegsOf(SelectSeq(pendingLines, Accepted))

\* how many accepted rows SQLite has applied, if every row read is applied,
\* queued or pending exactly once
Applied == Len(AcceptedRead) - Len(Queued) - Len(Pending)

\* C16: in setup-db-streaming, whatever the interleaving of line events,
\* setImmediate callbacks and the close event, at most one processBatch is
\* in progress, the accepted rows read are, in source order, first the
\* applied ones, then the queued ones, then the pending ones (no row lost,
\* none taken twice), the committed table is the result of a prefix of
\* them, and a successful run has processed every line.
C16_OneBatchInSourceOrder ==
    (script = "setup-db-streaming" /\ fault = "none")
        => /\ pc \in {"str_stream", "str_archive", "str_version", "str_close"}
                => /\ Cardinality(InProgress) <= 1
                   /\ Applied >= 0
                   /\ SubSeq(AcceptedRead, Applied + 1, Len(AcceptedRead)) = Queued \o Pending
                   /\ txnRegs = Stored({}, SubSeq(AcceptedRead, 1, Applied))
                   /\ \E m \in 0 .. Applied : ico_registrations = Stored({}, SubSeq(AcceptedRead, 1, m))
           /\ (pc = "exited" /\ exitCode = 0)
                => /\ pendingLines = <<>>
                   /\ ico_registrations = Stored({}, RegsOf(SelectSeq(csv, Accepted)))

\* the accepted rows of a file, in source order
AcceptedRows(content) == RegsOf(SelectSeq(content, Accepted))

\* C17: an import replaces the table and then streams the new file into it:
\* whenever a step adds a row to ico_registrations, every row of the table
\* is then a row of the file being imported (the table was cleared before
\* the first new row was written), and when an import exits with code 0
\* the table holds exactly the accepted rows of its file, so no row of an
\* earlier import whose key the new file lacks.
C17_ReplaceThenStream ==
    [][/\ ico_registrations' \ ico_registrations # {}
          => \A r \in ico_registrations' :
                \E n \in 1 .. Len(csv') : Accepted(csv'[n]) /\ Registration(csv'[n]) = r
       /\ (pc # "exited" /\ pc' = "exited" /\ exitCode' = 0)
          => ico_registrations' = Stored({}, AcceptedRows(csv'))]_vars

\* row a comes before row b in the result rows
Before(rows, a, b) ==
    \E m, n \in DOMAIN rows : m < n /\ rows[m] = a /\ rows[n] = b

\* C18: when an import of a file whose hash differs from that of the active
\* version V1 exits with code 0, V1 is archived, a new active row V2 with
\* the file's hash and an id greater than V1's exists, getAllDataVersions
\* returns V2 before V1, and getCurrentDataVersion returns V2.
C18_NewVersionSupersedesActive ==
    (pc = "exited" /\ exitCode = 0)
        => \A V1 \in ActiveRows(startVers) :
              V1.file_sha256 # Sha256(csv)
                  => /\ [V1 EXCEPT !.status = "archived"] \in data_versions
                     /\ \E V2 \in data_versions :
                           /\ V2.status = "active"
                           /\ V2.file_sha256 = Sha256(csv)
                           /\ V2.id > V1.id
                           /\ \A rows \in getAllDataVersions(data_versions) :
                                 Before(rows, V2, [V1 EXCEPT !.status = "archived"])
                           /\ getCurrentDataVersion(data_versions) = {V2}

\* C19: when the header of the file lacks the Registration_number column
\* or the Organisation_name column, the import (no injected failure) does
\* not fail: it exits with code 0, every data row is skipped, recordCount is
\* 0, skippedRecords is the number of non-blank data lines, no row is stored.
C19_MissingColumnSkipsEveryRow ==
    (pc = "exited" /\ fault = "none" /\ csv \in HeaderlessFiles(script))
        => /\ exitCode = 0
           /\ recordCount = 0
           /\ skippedRecords = Len(DataLines(csv))
           /\ ico_registrations = {}

\* C20: the import does not depend on the column order: a file and the
\* same file with one permutation applied to its header and to every data
\* line yield the same stored rows and the same imported and skipped counts.
C20_ColumnOrderIrrelevant ==
    (trial.original # NoOutcome /\ trial.permuted # NoOutcome)
        => trial.original = trial.permuted

\* the reference rules of a line.  A quoted span opened by the quote at a
\* ends at the next quote that is not the first of a doubled quote, or at
\* the end of the line: the index of that quote, or Len(line) + 1
RECURSIVE CloseOf(_, _)
CloseOf(line, j) ==
    IF j > Len(line) THEN j
    ELSE IF line[j] = "\"" /\ j < Len(line) /\ line[j + 1] = "\"" THEN CloseOf(line, j + 2)
    ELSE IF line[j] = "\"" THEN j
    ELSE CloseOf(line, j + 1)

\* the first comma outside quoted spans at or after index k, which is
\* outside them, or Len(line) + 1
RECURSIVE FirstSep(_, _)
FirstSep(line, k) ==
    IF k > Len(line) THEN Len(line) + 1
    ELSE IF line[k] = "," THEN k
    ELSE IF line[k] = "\"" THEN FirstSep(line, CloseOf(line, k + 1) + 1)
    ELSE FirstSep(line, k + 1)

\* the characters a field stands for: those outside quoted spans as they
\* are, the quotes that open and close a span dropped, inside a span a
\* doubled quote one quote and every other character as it is
RECURSIVE Unquote(_, _, _)
Unquote(field, k, inside) ==
    IF k > Len(field) THEN <<>>
    ELSE IF ~inside
    THEN IF field[k] = "\"" THEN Unquote(field, k + 1, TRUE)
         ELSE <<field[k]>> \o Unquote(field, k + 1, FALSE)
    ELSE IF field[k] = "\"" /\ k < Len(field) /\ field[k + 1] = "\""
    THEN <<"\"">> \o Unquote(field, k + 2, TRUE)
    ELSE IF field[k] = "\"" THEN Unquote(field, k + 1, FALSE)
    ELSE <<field[k]>> \o Unquote(field, k + 1, TRUE)

\* the fields of a line by the reference rules: the line is cut at its
\* commas outside quoted spans and every piece is unquoted
RECURSIVE Reference(_)
Reference(line) ==
    LET s == FirstSep(line, 1)
    IN <<Unquote(SubSeq(line, 1, s - 1), 1, FALSE)>>
       \o (IF s > Len(line) THEN <<>> ELSE Reference(SubSeq(line, s + 1, Len(line))))

\* the number of commas outside quoted spans
RECURSIVE SepCount(_)
SepCount(line) ==
    LET s == FirstSep(line, 1)
    IN IF s > Len(line) THEN 0 ELSE 1 + SepCount(SubSeq(line, s + 1, Len(line)))

\* C21: on every line over quote, comma and another character parseCSVLine
\* returns at least one field, one more than the line has commas outside
\* quoted spans, and the fields are those of the reference rules: quoted
\* commas and other characters literal, a doubled quote in a span one
\* quote, a span open at the end of the line closed there.
C21_ParseAgreesWithReference ==
    parsed.fields # NoFields
        => /\ Len(parsed.fields) >= 1
           /\ Len(parsed.fields) = 1 + SepCount(parsed.line)
           /\ parsed.fields = Reference(parsed.line)

\* the line ,","" has been parsed: a comma outside a span, then a span
\* that holds a comma and a doubled quote and is open at the end of the line
C21_Witness ==
    /\ parsed.line = <<",", "\"", ",", "\"", "\"">>
    /\ parsed.fields = <<<<>>, <<",", "\"">>>>


(***************************************************************************)
(* Searching the store                                                     *)
(***************************************************************************)
\* text contains s as a literal substring, ASCII letters in either case
Contains(text, s) ==
    \E k \in 0 .. (Len(text) - Len(s)) : \A j \in 1 .. Len(s) : Lower(text[k + j]) = Lower(s[j])

\* the row satisfies every option of the query that is set
Satisfies(row, query) ==
    /\ Truthy(query.registrationNumber) => row.registration_number = query.registrationNumber
    /\ TruthyText(query.organisationName) => Contains(row.organisation_name, query.organisationName)
    /\ TruthyText(query.postcode) => Contains(row.organisation_postcode, query.postcode)
    /\ Truthy(query.publicAuthority) => row.public_authority = query.publicAuthority
    /\ Truthy(query.paymentTier) => row.payment_tier = query.paymentTier

\* the rows of a result as a set
RowSet(result) == {result.rows[n] : n \in DOMAIN result.rows}

\* a search without limit and offset has returned
Unpaged ==
    /\ search.entry = "service"
    /\ search.args.limit = 0
    /\ search.args.offset = 0

\* C22: a search that is not paginated returns exactly the stored rows that
\* satisfy every option that is set (registration number and the two flags
\* by equality, name and postcode by containment), each of them once; an
\* option that is not set constrains nothing
C22_ExactlyTheSatisfyingRows ==
    Unpaged
        => /\ search.pages[1].ok
           /\ RowSet(search.pages[1]) = {row \in search.store : Satisfies(row, search.args)}
           /\ Len(search.pages[1].rows) = Cardinality(RowSet(search.pages[1]))

\* C22 for the names that hold no character LIKE reads as a wild card
C22_WithoutWildCards ==
    Unpaged /\ (\A n \in DOMAIN search.args.organisationName : search.args.organisationName[n] \notin {"%", "_"})
        => /\ search.pages[1].ok
           /\ RowSet(search.pages[1]) = {row \in search.store : Satisfies(row, search.args)}
           /\ Len(search.pages[1].rows) = Cardinality(RowSet(search.pages[1]))


\* the rows are the first limit rows, by name, of those the store holds
\* for the filter
FirstByName(result, limit) ==
    /\ result.ok
    /\ Len(result.rows) <= limit
    /\ \E all \in OrderByName({row \in search.store : Where(row, search.args)}) :
          result.rows = SubSeq(all, 1, Min(limit, Len(all)))

\* C23: through every entry, a search that gives neither limit nor offset
\* returns at most DEFAULT_LIMIT rows, the first ones by name
C23_DefaultPage ==
    search.entry \in Entries /\ search.args.limit = 0 /\ search.args.offset = 0
        => FirstByName(search.pages[1], DEFAULT_LIMIT)

\* C23 for the REST route alone
C23_DefaultPageOfRoute ==
    search.entry = "rest" /\ search.args.limit = 0 /\ search.args.offset = 0
        => FirstByName(search.pages[1], DEFAULT_LIMIT)


\* what getRegistrationByNumber returned is null or a registration with the
\* key asked for, and null if the store holds no such registration
ByNumberAsClaimed ==
    /\ search.found = <<>> \/ search.found[1].registration_number = search.key
    /\ (\A row \in search.store : row.registration_number # search.key) => search.found = <<>>

\* C24: for every key, the empty string and a missing value among them,
\* getRegistrationByNumber returns a registration with that number or null,
\* and null whenever no stored registration has that number
C24_ByNumberOrNull ==
    search.asked => ByNumberAsClaimed

\* C24 for the keys that are neither empty nor missing
C24_ByNumberOfGivenKey ==
    search.asked /\ Truthy(search.key) => ByNumberAsClaimed


\* C25: a search by name returns only rows whose name contains the given
\* text as a literal substring, ASCII letters in either case; no character
\* of the text stands for anything but itself
C25_NameIsLiteral ==
    search.entry = "service" /\ TruthyText(search.args.organisationName) /\ search.pages[1].ok
        => \A row \in RowSet(search.pages[1]) :
              Contains(row.organisation_name, search.args.organisationName)

\* C25 for the names that hold no '%' and no '_'
C25_NameWithoutWildCards ==
    (/\ search.entry = "service"
     /\ TruthyText(search.args.organisationName)
     /\ search.pages[1].ok
     /\ \A n \in DOMAIN search.args.organisationName : search.args.organisationName[n] \notin {"%", "_"})
        => \A row \in RowSet(search.pages[1]) :
              Contains(row.organisation_name, search.args.organisationName)


\* the names of the store are pairwise distinct and the search gives a
\* limit and an offset and nothing else
RankedSearch ==
    /\ search.entry = "service"
    /\ search.args.limit >= 1
    /\ search.args = [NoQuery EXCEPT !.limit = search.args.limit, !.offset = search.args.offset]
    /\ \A a, b \in search.store : a # b => a.organisation_name # b.organisation_name

Max(a, b) == IF a >= b THEN a ELSE b

\* the number of stored rows whose name comes before the name of row
Rank(row) == 1 + Cardinality({other \in search.store : Less(other.organisation_name, row.organisation_name)})

\* C26: on a store of pairwise distinct names, a search with limit L >= 1
\* and offset O returns exactly the rows of rank O+1 .. O+L by ascending
\* name, in that order
C26_RankedPage ==
    RankedSearch
        => /\ search.pages[1].ok
           /\ Len(search.pages[1].rows)
                 = Max(0, Min(search.args.limit, Cardinality(search.store) - search.args.offset))
           /\ \A n \in DOMAIN search.pages[1].rows :
                 Rank(search.pages[1].rows[n]) = search.args.offset + n

\* a page of two rows after an offset of one, from three names
C26_Witness ==
    /\ RankedSearch
    /\ Cardinality(search.store) = 3
    /\ search.args.offset = 1
    /\ Len(search.pages[1].rows) = 2


\* the caller pages through a search from offset 0 with a limit
Paging ==
    /\ search.entry = "service"
    /\ search.args.limit >= 1
    /\ search.args.offset = 0

\* the stored rows the filter of the search lets through
Matching == {row \in search.store : Where(row, search.args)}

\* the pages are in ascending order of name, no row is on two pages or
\* twice on one, and the pages that reach the end of the matching rows
\* hold every one of them
StablePages ==
    /\ \A p \in DOMAIN search.pages : search.pages[p].ok
    /\ \A p \in DOMAIN search.pages : \A m, n \in DOMAIN search.pages[p].rows :
          m < n => /\ search.pages[p].rows[m] # search.pages[p].rows[n]
                   /\ ~Less(search.pages[p].rows[n].organisation_name,
                            search.pages[p].rows[m].organisation_name)
    /\ \A p, q \in DOMAIN search.pages : p < q => RowSet(search.pages[p]) \cap RowSet(search.pages[q]) = {}
    /\ Len(search.pages) * search.args.limit >= Cardinality(Matching)
          => UNION {RowSet(search.pages[p]) : p \in DOMAIN search.pages} = Matching

\* C27: while the store and the filter stay the same, the pages at offsets
\* 0, L, 2L, ... are ascending by name, pairwise disjoint and together hold
\* every matching row exactly once, also when rows have equal names
C27_StablePagination ==
    Paging => StablePages

\* C27 for the searches whose matching rows have pairwise distinct names
C27_StableWithoutTies ==
    Paging /\ (\A a, b \in Matching : a # b => a.organisation_name # b.organisation_name)
        => StablePages


(***************************************************************************)
(* The stdio MCP server                                                    *)
(***************************************************************************)
\* the line is the text of one JSON object that has an id
RequestWithId(line) == Len(line) = 1 /\ line[1].json = "object" /\ line[1].id # "none"

\* the line is not the text of a JSON value
Unparsable(line) == Len(line) # 1 \/ line[1].json = "invalid"

\* the call of a tool fails
FailingCall(line) ==
    /\ RequestWithId(line)
    /\ line[1].method = "tools/call"
    /\ \/ line[1].params = "none"
       \/ line[1].arguments = "none"
       \/ line[1].name = "no_such_tool"
       \/ mcp.db # "ready"

\* C28: every line on standard output is an object with jsonrpc "2.0"; for
\* a line that parses as a request with an id exactly one line is written,
\* with that id, and it is an error object if the request is a tool call
\* that fails; for a line that does not parse nothing is written
C28_OnlyJsonRpcOnStdout ==
    /\ \A n \in DOMAIN mcp.stdout : mcp.stdout[n].jsonrpc = "2.0"
    /\ \A n \in DOMAIN mcp.handled :
          LET line == mcp.handled[n].line
              written == mcp.handled[n].written
          IN /\ RequestWithId(line)
                   => /\ Len(written) = 1
                      /\ written[1].jsonrpc = "2.0"
                      /\ written[1].id = line[1].id
             /\ FailingCall(line) => Len(written) = 1 /\ written[1].kind = "error"
             /\ Unparsable(line) => written = <<>>

\* two tool calls that fail, arrived in two chunks, have each been
\* answered with one error object of their id
C28_Witness ==
    /\ Len(mcp.handled) = 2
    /\ FailingCall(mcp.handled[1].line)
    /\ FailingCall(mcp.handled[2].line)
    /\ mcp.chunks = 2
    /\ Len(mcp.stdout) = 2
    /\ mcp.stdout[2] = Response("1", "error", -1)


(***************************************************************************)
(* The HTTP bridge                                                         *)
(***************************************************************************)
\* the request was forwarded to the HTTP server
Forwarded(request) == request.outcomes # <<>> \/ request.pc = "attempt"

\* C29: a forwarded request is attempted at most MAX_RETRY_ATTEMPTS + 1
\* times; the delay after the failed attempt k (from 0) is
\* RECONNECT_DELAY * 2^k; no attempt follows a success; nothing is written
\* while attempts are left, and after the last failed attempt exactly one
\* error response with the id of the request
C29_RetriesWithBackoff ==
    \A r \in DOMAIN bridge.requests :
        LET request == bridge.requests[r]
            failed == {k \in DOMAIN request.outcomes : ~request.outcomes[k]}
        IN Forwarded(request)
              => /\ Len(request.outcomes) <= bridge.MAX_RETRY_ATTEMPTS + 1
                 /\ \A k \in DOMAIN request.waits :
                       request.waits[k] = bridge.RECONNECT_DELAY * (2 ^ (k - 1))
                 /\ Len(request.waits) = Cardinality(failed \cap 1 .. bridge.MAX_RETRY_ATTEMPTS)
                 /\ \A k \in DOMAIN request.outcomes : request.outcomes[k] => k = Len(request.outcomes)
                 /\ request.pc # "done" => request.written = <<>>
                 /\ request.pc = "done" /\ Cardinality(failed) = Len(request.outcomes)
                       => /\ Len(request.outcomes) = bridge.MAX_RETRY_ATTEMPTS + 1
                          /\ request.written = <<Response(request.message.id, "error", -32603)>>

\* a request has failed MAX_RETRY_ATTEMPTS + 1 times with two retries and
\* was answered with one error
C29_Witness ==
    \E r \in DOMAIN bridge.requests :
        /\ bridge.MAX_RETRY_ATTEMPTS = 2
        /\ bridge.RECONNECT_DELAY = 2
        /\ bridge.requests[r].outcomes = <<FALSE, FALSE, FALSE>>
        /\ bridge.requests[r].waits = <<2, 4>>
        /\ bridge.requests[r].pc = "done"
        /\ Len(bridge.requests[r].written) = 1


\* a message with a method and without an id
Notification(message) == message.json = "object" /\ message.id = "none" /\ message.method # "none"

\* C30: for a notification, a message without an id, neither the stdio MCP
\* server nor the HTTP bridge writes anything to standard output
C30_NotificationsUnanswered ==
    /\ \A n \in DOMAIN mcp.handled :
          Len(mcp.handled[n].line) = 1 /\ Notification(mcp.handled[n].line[1])
              => mcp.handled[n].written = <<>>
    /\ \A r \in DOMAIN bridge.requests :
          Notification(bridge.requests[r].message)
              => bridge.requests[r].written = <<>> /\ bridge.requests[r].outcomes = <<>>

\* C30 for the HTTP bridge alone: its output stays empty while all it has
\* read are notifications
C30_BridgeIsSilent ==
    Notification(bridge.message) /\ bridge.requests # <<>> => bridge.stdout = <<>>


(***************************************************************************)
(* The lock file of cron-update                                            *)
(***************************************************************************)
\* C31: an updateData invocation whose checkLockFile found the lock held
\* runs none of the three commands, and no step of it changes the lock
\* file: the file is there, as it was, when the invocation returns
C31_HeldLockLeftInPlace ==
    [][\A p \in Procs :
          checked[p] = "held" /\ cpc'[p] # cpc[p]
              => lockFile' = lockFile /\ cpc'[p] \notin {"create", "download", "build", "import"}]_vars

\* C31 without the finally block: the steps of such an invocation other
\* than the unlink of removeLockFile and the exit on a signal
C31_HeldLockUntilFinally ==
    [][\A p \in Procs :
          checked[p] = "held" /\ cpc'[p] # cpc[p] /\ cpc[p] = "remove"  /\ cpc'[p] # "done"
              => lockFile' = lockFile /\ cpc'[p] = "remove_unlink"]_vars


\* the age of the lock file
LockAge == now - lockFile.mtime

\* C32: a lock file that is missing lets the update proceed to
\* createLockFile; one that exists is held exactly if its age is at most
\* MAX_LOCK_AGE: held, the update leaves without running a command; older,
\* the file is removed and the update proceeds to createLockFile
C32_HeldIffFresh ==
    [][\A p \in Procs :
          /\ cpc[p] = "exists" /\ cpc'[p] \notin {cpc[p], "done"} /\ ~lockFile.exists
                => cpc'[p] = "create"
          /\ cpc[p] = "stat" /\ cpc'[p] \notin {cpc[p], "done"} /\ lockFile.exists
                => /\ LockAge <= MAX_LOCK_AGE => cpc'[p] = "remove" /\ checked'[p] = "held"
                   /\ LockAge > MAX_LOCK_AGE => cpc'[p] = "unlink" /\ checked'[p] = "stale"
          /\ cpc[p] = "unlink" /\ cpc'[p] \notin {cpc[p], "done"} /\ lockFile.exists
                => ~lockFile'.exists /\ cpc'[p] = "create"
          /\ checked[p] = "held" => ~Updating(p)]_vars

\* a process found a lock file older than MAX_LOCK_AGE, removed it and is
\* at its first command, and another had found a lock file held
C32_Witness ==
    \E p, q \in Procs :
        /\ checked[p] = "stale"
        /\ cpc[p] = "download"
        /\ lockFile.pid = p
        /\ checked[q] = "held"
        /\ cpc[q] = "done"


\* the lock file that process p created is there
LockOf(p) == lockFile.exists /\ lockFile.pid = p

\* C33: the lock file a process created is gone once the process has left
\* updateData, whether all commands succeeded, one failed or a signal
\* arrived; and with commands that end and steps that are taken, every
\* lock file that is there is removed at some time
C33_LockAlwaysReleased ==
    /\ [](\A p \in Procs : LockOf(p) => cpc[p] \in {"download", "build", "import", "remove", "remove_unlink"})
    /\ \A p \in Procs : LockOf(p) ~> ~LockOf(p)

\* a process has created the lock file, run its three commands and left,
\* and the file is gone
C33_Witness ==
    \E p \in Procs :
        /\ cpc[p] = "done"
        /\ checked[p] = "missing"
        /\ lockFile.pid = p
        /\ ~lockFile.exists


(***************************************************************************)
(* The import scripts side by side                                         *)
(***************************************************************************)
\* both scripts have imported the file
BothImported == trial.fast # NoOutcome /\ trial.streaming # NoOutcome

\* C34: for every file, the scripts leave the same rows with the same
\* values and report the same imported count, also for files with CRLF
\* line ends, an empty first line or blanks around fields
C34_ScriptsInterchangeable ==
    BothImported
        => /\ trial.fast.rows = trial.streaming.rows
           /\ trial.fast.imported = trial.streaming.imported

\* C34 for the files whose first line is the header
C34_SameWithHeaderFirst ==
    BothImported /\ trial.text.header # <<>>
        => /\ trial.fast.rows = trial.streaming.rows
           /\ trial.fast.imported = trial.streaming.imported


(***************************************************************************)
(* Line breaks inside quoted fields                                        *)
(***************************************************************************)
\* the logical records of a data text: it is cut at the line breaks outside
\* quoted spans; a quote opens or closes a span
RECURSIVE LogicalRecords(_, _, _)
LogicalRecords(text, current, inside) ==
    IF text = <<>> THEN <<current>>
    ELSE IF Head(text) = LineBreak /\ ~inside
    THEN <<current>> \o LogicalRecords(Tail(text), <<>>, FALSE)
    ELSE LogicalRecords(Tail(text), Append(current, Head(text)),
                        IF Head(text) = "\"" THEN ~inside ELSE inside)

\* the fields of the logical records that are not empty lines
ReferenceValues(text) ==
    LET kept == SelectSeq(LogicalRecords(text, <<>>, FALSE), LAMBDA record : trimChars(record) # <<>>)
    IN [n \in DOMAIN kept |-> Reference(trimChars(kept[n]))]

\* every quoted span of the text is closed
RECURSIVE Quotes(_)
Quotes(text) == IF text = <<>> THEN 0 ELSE (IF Head(text) = "\"" THEN 1 ELSE 0) + Quotes(Tail(text))

Closed(text) == Quotes(text) % 2 = 0

\* a line break stands inside a quoted span
BreakInside(text) == Closed(text) /\ Len(LogicalRecords(text, <<>>, FALSE)) < Len(splitChars(text, <<>>))

\* C35: a quoted field that holds a line break is one field of one record:
\* the script gets as many records as the text has logical records, with
\* the complete quoted values
C35_QuotedLineBreakIsOneField ==
    parsed.done /\ Closed(parsed.text) => parsed.values = ReferenceValues(parsed.text)

\* C35 for the texts without a line break in a quoted span
C35_SameWithoutQuotedBreaks ==
    parsed.done /\ Closed(parsed.text) /\ ~BreakInside(parsed.text)
        => parsed.values = ReferenceValues(parsed.text)


(***************************************************************************)
(* Limit and offset                                                        *)
(***************************************************************************)
\* the page skips the first offset matching rows by name and goes on from
\* there without a gap
SkipsOffset(result, offset) ==
    \E all \in OrderByName(Matching) :
        result.rows = SubSeq(all, offset + 1, offset + Len(result.rows))

\* C36: a search through the service never fails because of limit and
\* offset: a limit n >= 1 returns at most n rows and an offset k skips the
\* first k matching rows by name, also when no limit is given (a limit of 0
\* in the arguments stands for 0 and for no limit; the rows of a limit 0
\* are not constrained here)
C36_LimitAndOffsetHonoured ==
    search.entry = "service"
        => /\ search.pages[1].ok
           /\ search.args.limit >= 1 => Len(search.pages[1].rows) <= search.args.limit
           /\ SkipsOffset(search.pages[1], search.args.offset)

\* C36 for the searches that give a limit of 1 or more
C36_HonouredWithLimit ==
    search.entry = "service" /\ search.args.limit >= 1
        => /\ search.pages[1].ok
           /\ Len(search.pages[1].rows) <= search.args.limit
           /\ SkipsOffset(search.pages[1], search.args.offset)


(***************************************************************************)
(* The order of the responses                                              *)
(***************************************************************************)
\* the lines of the stdio server that were answered, in the order of their
\* responses on standard output
Answered == SelectSeq(mcp.handled, LAMBDA done : done.written # <<>>)

\* C37: the stdio server writes its responses in the order the requests
\* were read: a request of a later chunk is not answered before a request
\* of an earlier chunk, also while that one waits for the database
C37_ResponsesInReadOrder ==
    \A m, n \in DOMAIN Answered : m < n => Answered[m].handler <= Answered[n].handler

\* C37 for the bridge: the requests are answered in the order of their
\* lines, also while an earlier one waits for the HTTP server or a retry
C37_BridgeInReadOrder ==
    \A m, n \in DOMAIN bridge.answered : m < n => bridge.answered[m] < bridge.answered[n]

\* C37 for the requests of the stdio server that do not reach the database
C37_InOrderWithoutDatabase ==
    (\A n \in DOMAIN mcp.handled : ~AwaitsDatabase(mcp.handled[n].line))
        => C37_ResponsesInReadOrder

=============================================================================
